---- MODULE Spec2Model ----
(***************************************************************************)
(* Frame-streaming engine of the gm12u320 USB projector driver.            *)
(*                                                                         *)
(* Modelled from src/unnamed/part_008 (worker, start/stop, timer, load and *)
(* unload) and src/gm12u320_fb.c (gm12u320_fb_mark_dirty).                 *)
(* src/unnamed/part_007 is an earlier copy of part_008 with the same       *)
(* control flow in the transfer loop, in start/stop and in unload.         *)
(*                                                                         *)
(* Every mutex critical section of the code is one atomic step; the steps  *)
(* between critical sections, every usb_bulk_msg and every wait are        *)
(* separate steps, so producers, the timer, stop and unload interleave with *)
(* the worker at each of them.                                             *)
(***************************************************************************)
EXTENDS Integers, Sequences, FiniteSets, TLC

(***************************************************************************)
(* Bounds and program constants                                            *)
(***************************************************************************)

\* Number of data blocks of a frame.  The header that sets
\* GM12U320_BLOCK_COUNT is not among the sources; the model keeps it small.
GM12U320_BLOCK_COUNT == 3

\* Producer calls of gm12u320_fb_mark_dirty recorded between two drains.
MaxCalls == 2

CMD_TIMEOUT == 200
DATA_TIMEOUT == 1000
FIRST_FRAME_TIMEOUT == 2000

DATA_BLOCK_HEADER_SIZE == 84
DATA_BLOCK_CONTENT_SIZE == 64512
DATA_BLOCK_FOOTER_SIZE == 20
DATA_BLOCK_SIZE ==
    DATA_BLOCK_HEADER_SIZE + DATA_BLOCK_CONTENT_SIZE + DATA_BLOCK_FOOTER_SIZE
DATA_LAST_BLOCK_CONTENT_SIZE == 4032
DATA_LAST_BLOCK_SIZE ==
    DATA_BLOCK_HEADER_SIZE + DATA_LAST_BLOCK_CONTENT_SIZE + DATA_BLOCK_FOOTER_SIZE
CMD_SIZE == 31
READ_STATUS_SIZE == 13

\* Pages of a GEM object (obj->base.size / PAGE_SIZE).
MaxPages == 3

\* Bytes of a page.  The kernel's PAGE_SIZE is not set by the sources; the
\* model keeps it small.
PAGE_SIZE == 4

\* A byte of unknown value: received from the device, or left by kmalloc.
UNKNOWN_BYTE == 256

cmd_data ==
    <<85, 83, 66, 67, 0, 0, 0, 0,
      104, 252, 0, 0, 0, 0, 16, 255,
      0, 0, 0, 0, 252, 0, 128, 0,
      0, 0, 0, 0, 0, 0, 0>>

cmd_draw ==
    <<85, 83, 66, 67, 0, 0, 0, 0,
      0, 0, 0, 0, 0, 0, 16, 254,
      0, 0, 0, 192, 209, 5, 0, 64,
      0, 1, 0, 0, 0, 0, 0>>

\* Framebuffers a producer may mark, and the empty slot (NULL).
Fbs == {"A", "B"}
NoFb == "NULL"

Rect(a, b, c, d) == [x1 |-> a, x2 |-> b, y1 |-> c, y2 |-> d]

\* Regions the producers pass to gm12u320_fb_mark_dirty.
SampleRegions == {Rect(0, 10, 0, 10), Rect(5, 20, 5, 20), Rect(2, 30, 12, 15)}

\* The region of the worker's own call
\* gm12u320_fb_mark_dirty(fb, 0, GM12U320_USER_WIDTH, 0, GM12U320_HEIGHT).
FullFrame == Rect(0, 800, 0, 480)

ZeroRect == Rect(0, 0, 0, 0)

\* Results of usb_bulk_msg: the status it returns, and whether the
\* transferred length equals the requested one.
Statuses == {"OK", "ETIMEDOUT", "ECONNRESET", "ESHUTDOWN"}
Outcomes == {[ret |-> "OK", full |-> TRUE], [ret |-> "OK", full |-> FALSE],
             [ret |-> "ETIMEDOUT", full |-> FALSE],
             [ret |-> "ECONNRESET", full |-> FALSE],
             [ret |-> "ESHUTDOWN", full |-> FALSE]}
Success == [ret |-> "OK", full |-> TRUE]

VARIABLES
    run,                \* fb_update.run
    pfb,                \* fb_update.fb, the pending buffer (NoFb when empty)
    preg,               \* fb_update.x1, x2, y1, y2
    workPending,        \* fb_update.work is queued on the workqueue
    canceling,          \* cancel_work_sync holds the work's pending bit
    timer,              \* fb_update.timer: "armed", "firing", "idle", "late"
    usb,                \* cmd_buf and data_buf[]: "alloc" or "freed"
    wqAlive,            \* fb_update.workq exists
    devAlive,           \* struct gm12u320_device exists
    wpc,                \* position of the worker in gm12u320_fb_update_work
    block,              \* worker local: block
    frame,              \* worker local: frame (the parity bit)
    draw_status_timeout,\* worker local
    fb,                 \* worker local: fb taken from the slot
    taken,              \* worker local: x1, x2, y1, y2 taken from the slot
    ret,                \* worker local: ret of the last usb_bulk_msg
    log,                \* transfers issued in the current cycle, in order
    startpc,            \* position of a caller in gm12u320_start_fb_update
    spc,                \* position of a caller in gm12u320_stop_fb_update
    upc,                \* position of a caller in gm12u320_driver_unload
    calls,              \* history: mark_dirty calls since the last drain
    takenCalls,         \* history: the calls the last drain covered
    stopReturned,       \* history: stop has returned and start was not called since
    exitKind,           \* history: how the last worker invocation ended
    data_buf,           \* what the content area of data_buf[] holds
    data_layout,        \* data_buf[i]: size, header, footer, extent of content
    lock,               \* holder of fb_update.lock ("free" when not held)
    gobj,               \* the GEM object: "none", "live", "freed"
    import_attach,      \* obj->base.import_attach is set
    page_count,         \* obj->base.size / PAGE_SIZE
    obj_pages,          \* obj->pages is not NULL
    vmapping,           \* obj->vmapping: "NULL", "vmap", "dmabuf"
    heldPages,          \* pages got from alloc_page and not given back
    heldArray,          \* the page array from kvmalloc_array is not freed
    vmapArea,           \* a vmap area of the object exists
    extMap,             \* the exporter's mapping from dma_buf_vmap is held
    gpc,                \* position of a caller inside the GEM functions
    gi,                 \* gm12u320_gem_get_pages local: i
    gcaller,            \* the function that called gm12u320_gem_get_pages
    gret,               \* what the last GEM call returned
    config,             \* which pointers of the device the worker finds set
    reported,           \* history: the last worker invocation logged an error
    cmd_buf,            \* the CMD_SIZE bytes of cmd_buf
    lastParity,         \* history: parity of the last successful cycle, if any
    obj_size,           \* obj->base.size
    reqSize,            \* history: the size gm12u320_gem_create was asked for
    vmfault,            \* history: the last gm12u320_gem_fault, input and result
    lpc,                \* position of the caller in gm12u320_driver_load
    usb_held,           \* cmd_buf and data_buf[] allocations not freed
    lret,               \* what gm12u320_driver_load returned
    dumb                \* history: the last gm12u320_dumb_create, args and result

slotVars == <<pfb, preg>>
wqVars == <<workPending, canceling>>
devVars == <<usb, wqAlive, devAlive>>
localVars == <<block, frame, draw_status_timeout, fb, taken, ret>>
callerVars == <<startpc, spc, upc>>
histVars == <<calls, takenCalls, stopReturned, exitKind>>
gemVars == <<gobj, import_attach, page_count, obj_pages, vmapping, heldPages,
             heldArray, vmapArea, extMap, gpc, gi, gcaller, gret, obj_size,
             reqSize, vmfault>>
loadVars == <<lpc, usb_held, lret, dumb>>
auxVars == <<config, reported, cmd_buf, lastParity, loadVars>>

vars == <<run, pfb, preg, workPending, canceling, timer, usb, wqAlive, devAlive,
          wpc, block, frame, draw_status_timeout, fb, taken, ret, log,
          startpc, spc, upc, calls, takenCalls, stopReturned, exitKind,
          data_buf, data_layout, lock, gobj, import_attach, page_count, obj_pages, vmapping,
          heldPages, heldArray, vmapArea, extMap, gpc, gi, gcaller, gret,
          config, reported, cmd_buf, lastParity, obj_size, reqSize, vmfault,
          lpc, usb_held, lret, dumb>>

\* The state of the frame-streaming engine.
engineVars == <<run, pfb, preg, workPending, canceling, timer, usb, wqAlive,
                devAlive, wpc, block, frame, draw_status_timeout, fb, taken,
                ret, log, startpc, spc, upc, calls, takenCalls, stopReturned,
                exitKind, data_buf, data_layout, lock, config, reported, cmd_buf,
                lastParity>>

(***************************************************************************)
(* Helpers                                                                 *)
(***************************************************************************)

Min(a, b) == IF a < b THEN a ELSE b
Max(a, b) == IF a > b THEN a ELSE b

SeqRange(s) == {s[i] : i \in 1..Len(s)}

\* The last same-buffer run of a call history: the calls at the end of h that
\* name the buffer of h's last call.
RECURSIVE RunStart(_, _)
RunStart(h, i) ==
    IF i > 1 /\ h[i - 1].fb = h[Len(h)].fb THEN RunStart(h, i - 1) ELSE i

LastRun(h) == IF h = <<>> THEN <<>> ELSE SubSeq(h, RunStart(h, Len(h)), Len(h))

\* Bounding box of the regions of a non-empty set of calls.
SetMin(S) == CHOOSE m \in S : \A n \in S : m <= n
SetMax(S) == CHOOSE m \in S : \A n \in S : m >= n
BBox(h) ==
    LET S == SeqRange(h)
    IN  Rect(SetMin({c.reg.x1 : c \in S}), SetMax({c.reg.x2 : c \in S}),
             SetMin({c.reg.y1 : c \in S}), SetMax({c.reg.y2 : c \in S}))

\* Region r lies inside region s.
Inside(r, s) == s.x1 <= r.x1 /\ r.x2 <= s.x2 /\ s.y1 <= r.y1 /\ r.y2 <= s.y2

(***************************************************************************)
(* Workqueue and wait queue primitives                                     *)
(***************************************************************************)

\* queue_work: no effect when the work is already pending or being cancelled.
QueueWork(pending, cancel) == IF cancel THEN pending ELSE TRUE

\* wake_up(&fb_update.waitq): a sleeping worker re-evaluates its condition.
WakeUp(pc) ==
    CASE pc = "sleep" -> "wait"
      [] pc = "skipsleep" -> "skipwait"
      [] OTHER -> pc

\* gm12u320_fb_update_ready
FbUpdateReady == ~run \/ pfb # NoFb

(***************************************************************************)
(* gm12u320_fb_mark_dirty (src/gm12u320_fb.c)                              *)
(***************************************************************************)

\* A mutation of MarkSlot: the same-buffer branch overwrites instead of merging.
MarkSlotOverwrite(sfb, sreg, f, r) == [fb |-> f, reg |-> r]

\* A mutation of MarkSlot: an empty slot merges with the coordinates left in it.
MarkSlotStale(sfb, sreg, f, r) ==
    IF sfb \notin {f, NoFb}
    THEN [fb |-> f, reg |-> r]
    ELSE [fb |-> f,
          reg |-> Rect(Min(sreg.x1, r.x1), Max(sreg.x2, r.x2),
                       Min(sreg.y1, r.y1), Max(sreg.y2, r.y2))]

\* A mutation of MarkSlot: a different buffer merges into the pending region.
MarkSlotKeep(sfb, sreg, f, r) ==
    IF sfb = NoFb
    THEN [fb |-> f, reg |-> r]
    ELSE [fb |-> f,
          reg |-> Rect(Min(sreg.x1, r.x1), Max(sreg.x2, r.x2),
                       Min(sreg.y1, r.y1), Max(sreg.y2, r.y2))]

\* The critical section of gm12u320_fb_mark_dirty: the slot (sfb, sreg)
\* after a call for buffer f with region r.
MarkSlot(sfb, sreg, f, r) ==
    IF sfb # f
    THEN [fb |-> f, reg |-> r]
    ELSE [fb |-> f,
          reg |-> Rect(Min(sreg.x1, r.x1), Max(sreg.x2, r.x2),
                       Min(sreg.y1, r.y1), Max(sreg.y2, r.y2))]

\* bool wakeup = false;  no statement of gm12u320_fb_mark_dirty assigns it.
wakeup == FALSE

\* A producer calls gm12u320_fb_mark_dirty(f, r):  the critical section, then
\* if (wakeup) wake_up(&fb_update.waitq).
MarkDirty(f, r) ==
    /\ devAlive /\ upc = "idle" /\ lpc = "done"
    /\ Len(calls) < MaxCalls
    /\ wpc' = IF wakeup THEN WakeUp(wpc) ELSE wpc
    /\ pfb' = MarkSlot(pfb, preg, f, r).fb
    /\ preg' = MarkSlot(pfb, preg, f, r).reg
    /\ calls' = Append(calls, [fb |-> f, reg |-> r])
    /\ UNCHANGED <<run, wqVars, timer, devVars, localVars, log, callerVars,
                   takenCalls, stopReturned, exitKind>>
    /\ lock = "free" /\ lock' = "free"
    /\ UNCHANGED <<data_layout, data_buf, gemVars, auxVars>>

Producer == \E f \in Fbs, r \in SampleRegions : MarkDirty(f, r)

\* The producers of the lifecycle specification mark one region of one
\* buffer; SpecDirty has the producers of every buffer and region.
ProducerOne == MarkDirty("A", Rect(0, 10, 0, 10))

(***************************************************************************)
(* gm12u320_fb_update_work (src/unnamed/part_008)                          *)
(***************************************************************************)

\* A mutation of SendBlockSize: every block is sent with the full size.
SendBlockSizeFull(b) == DATA_BLOCK_SIZE

\* block_size of the send loop.
SendBlockSize(b) ==
    IF b = GM12U320_BLOCK_COUNT - 1 THEN DATA_LAST_BLOCK_SIZE ELSE DATA_BLOCK_SIZE

\* block_size of gm12u320_usb_alloc: the size of data_buf[i].
AllocBlockSize(i) ==
    IF i = GM12U320_BLOCK_COUNT - 1 THEN DATA_LAST_BLOCK_SIZE ELSE DATA_BLOCK_SIZE

\* A mutation of FillDataSize: the whole block is taken as content.
FillDataSizeWhole(i) == AllocBlockSize(i)

\* data_size of the loop that fills the blocks from the captured screen.
FillDataSize(i) ==
    (IF i = GM12U320_BLOCK_COUNT - 1 THEN DATA_LAST_BLOCK_SIZE
     ELSE DATA_BLOCK_SIZE) - DATA_BLOCK_HEADER_SIZE - DATA_BLOCK_FOOTER_SIZE

\* gm12u320_usb_alloc for block i: kzalloc(block_size), the header copied to
\* the front, data_block_footer to the last DATA_BLOCK_FOOTER_SIZE bytes.
AllocBlock(i) ==
    [size |-> AllocBlockSize(i),
     hdr |-> IF i = GM12U320_BLOCK_COUNT - 1 THEN "data_last_block_header"
             ELSE "data_block_header",
     foot |-> "data_block_footer",
     filled |-> 0,
     overrun |-> FALSE]

\* memcpy of n bytes to offset at of a block: what it does to the header,
\* the footer and the end of the allocation, and how far content reaches.
Memcpy(b, at, n) ==
    IF n <= 0 THEN b
    ELSE [b EXCEPT
            !.hdr = IF at < DATA_BLOCK_HEADER_SIZE THEN "clobbered" ELSE @,
            !.foot = IF at + n > b.size - DATA_BLOCK_FOOTER_SIZE
                     THEN "clobbered" ELSE @,
            !.overrun = @ \/ (at + n > b.size),
            !.filled = Max(@, at + n - DATA_BLOCK_HEADER_SIZE)]

\* copy_size = min(data_size, capture_size - data_offset), when
\* data_offset < capture_size.
CopySize(i, off, cap) ==
    IF off < cap THEN Min(FillDataSize(i), cap - off) ELSE 0

\* The loop that copies the captured screen to the blocks i..N-1, with
\* data_offset off and capture_size cap.
RECURSIVE FillBlocks(_, _, _, _)
FillBlocks(lay, i, off, cap) ==
    IF i >= GM12U320_BLOCK_COUNT THEN lay
    ELSE FillBlocks(
             [lay EXCEPT ![i] = Memcpy(@, DATA_BLOCK_HEADER_SIZE,
                                       CopySize(i, off, cap))],
             i + 1, off + CopySize(i, off, cap), cap)

\* The content bytes all blocks hold together.
TotalContent ==
    (GM12U320_BLOCK_COUNT - 1) * DATA_BLOCK_CONTENT_SIZE
    + DATA_LAST_BLOCK_CONTENT_SIZE

\* The length a transfer of the given kind asks usb_bulk_msg for.
TransferSize(kind) ==
    CASE kind \in {"cmd", "draw"} -> CMD_SIZE
      [] kind = "data" -> SendBlockSize(block)
      [] OTHER -> READ_STATUS_SIZE

\* A value stored into a byte of cmd_buf.
U8(v) == v % 256

\* b | (p << 7) for a parity p of 0 or 1.
OrBit7(b, p) == IF p = 1 /\ (b \div 128) % 2 = 0 THEN b + 128 ELSE b

\* A mutation of LoadTemplate: the bytes a status reply may have overwritten
\* are not copied.
LoadTemplateTail(buf, tmpl) ==
    SubSeq(buf, 1, READ_STATUS_SIZE) \o SubSeq(tmpl, READ_STATUS_SIZE + 1, CMD_SIZE)

\* memcpy(cmd_buf, tmpl, CMD_SIZE)
LoadTemplate(buf, tmpl) == tmpl

\* The data command for block b with parity f, built in cmd_buf.  The C
\* indices 8, 9, 20 and 21 are the positions 9, 10, 21 and 22 here.
DataCmd(buf, b, f) ==
    [LoadTemplate(buf, cmd_data) EXCEPT
        ![9] = U8(SendBlockSize(b)),
        ![10] = U8(SendBlockSize(b) \div 256),
        ![21] = U8(252 - b * 4),
        ![22] = U8(OrBit7(b, f))]

\* A mutation of DrawCmd: the buffer is sent as the last transfer left it.
DrawCmdStale(buf) == buf

\* memcpy(cmd_buf, cmd_draw, CMD_SIZE): the draw command, built in cmd_buf.
DrawCmd(buf) == LoadTemplate(buf, cmd_draw)

\* Bytes a status read leaves in cmd_buf: the whole reply, a reply that is
\* one byte short when the length check fails, nothing on an error.
ReplyLen(o) ==
    IF o.ret # "OK" THEN 0
    ELSE IF o.full THEN READ_STATUS_SIZE ELSE READ_STATUS_SIZE - 1

Reply(buf, n) == [i \in 1..n |-> UNKNOWN_BYTE] \o SubSeq(buf, n + 1, CMD_SIZE)

\* cmd_buf after a transfer of the given kind with outcome o.
BufferAfter(kind, o) ==
    CASE kind = "cmd" -> DataCmd(cmd_buf, block, frame)
      [] kind = "draw" -> DrawCmd(cmd_buf)
      [] kind = "data" -> cmd_buf
      [] OTHER -> Reply(cmd_buf, ReplyLen(o))

\* The bytes of cmd_buf a send transfer puts on the wire.
SentBytes(kind) ==
    CASE kind = "cmd" -> DataCmd(cmd_buf, block, frame)
      [] kind = "draw" -> DrawCmd(cmd_buf)
      [] OTHER -> <<>>

\* A mutation of ShouldLog: every aborted cycle is logged.
ShouldLogAlways(r) == TRUE

\* if (ret != -ECONNRESET && ret != -ESHUTDOWN) dev_err(...)
ShouldLog(r) == r \notin {"ECONNRESET", "ESHUTDOWN"}

\* One usb_bulk_msg as the transport sees it; content is what the content
\* area of the buffer holds when a data block is sent.
Entry(kind, o, tmo) ==
    [kind |-> kind, block |-> block, parity |-> frame, timeout |-> tmo,
     ok |-> (o = Success), size |-> TransferSize(kind),
     content |-> IF kind = "data" THEN data_buf ELSE "none",
     bytes |-> SentBytes(kind)]

\* A mutation of AfterTransfer: a failed transfer does not leave the cycle.
AfterTransferContinue(o, okpc) == okpc

\* if (ret || len != expected) goto err;  err: returns from the work function.
AfterTransfer(o, okpc) == IF o.ret # "OK" \/ ~o.full THEN "idle" ELSE okpc

\* A mutation of Flip: the parity goes back to 0.
FlipReset(f) == 0

\* A mutation of Flip: the parity is not toggled.
FlipStuck(f) == f

\* frame = !frame
Flip(f) == 1 - f

\* A mutation of WorkItemIdle: the workqueue starts a queued work at any time.
WorkItemAlwaysIdle == TRUE

\* The workqueue (create_singlethread_workqueue) starts the work function only
\* when no invocation of it is running.
WorkItemIdle == wpc = "idle"

\* A mutation of InitialFrame: the parity the last invocation left is kept.
InitialFrameKept(f) == f

\* int frame = 0: the value the local has when the work function is entered,
\* whatever an earlier invocation left (f).
InitialFrame(f) == 0

\* The worker thread of the single-threaded workqueue takes the queued work:
\* the locals of gm12u320_fb_update_work are initialised.
WorkerStart ==
    /\ wqAlive /\ workPending /\ WorkItemIdle
    /\ workPending' = FALSE
    /\ wpc' = "entry"
    /\ draw_status_timeout' = FIRST_FRAME_TIMEOUT
    /\ frame' = InitialFrame(frame)
    /\ ret' = "OK"
    /\ block' = 0
    /\ fb' = NoFb
    /\ taken' = ZeroRect
    /\ log' = <<>>
    /\ exitKind' = "none"
    /\ UNCHANGED <<run, slotVars, canceling, timer, devVars, callerVars,
                   calls, takenCalls, stopReturned>>
    /\ reported' = FALSE
    /\ lastParity' = {}
    /\ UNCHANGED <<data_layout, data_buf, lock, gemVars, loadVars, config, cmd_buf>>

\* The device as gm12u320_driver_load leaves it: every pointer set.
ValidConfig ==
    [dev |-> TRUE, udev |-> TRUE, cmd |-> TRUE,
     data |-> 0..(GM12U320_BLOCK_COUNT - 1)]

\* A mutation of ConfigValid: the worker does not check its pointers.
ConfigUnchecked == TRUE

\* The device, udev, cmd_buf and every data_buf[i] are not NULL.
ConfigValid ==
    /\ config.dev /\ config.udev /\ config.cmd
    /\ \A i \in 0..(GM12U320_BLOCK_COUNT - 1) : i \in config.data

\* The NULL checks on the device, udev, cmd_buf and data_buf[]: the function
\* returns when one of them is NULL.  kfree leaves the pointers set, so freed
\* buffers pass the checks.
WorkerEntry ==
    /\ wpc = "entry"
    /\ wpc' = IF ConfigValid THEN "check" ELSE "idle"
    /\ exitKind' = IF ConfigValid THEN exitKind ELSE "config"
    /\ UNCHANGED <<run, slotVars, wqVars, timer, devVars, localVars, log,
                   callerVars, calls, takenCalls, stopReturned>>
    /\ UNCHANGED <<data_layout, data_buf, lock, gemVars, auxVars>>

\* A mutation of WorkerCheck: the loop condition is inverted.
WorkerCheckInverted ==
    /\ wpc = "check"
    /\ IF ~run
       THEN wpc' = "drain" /\ exitKind' = exitKind
       ELSE wpc' = "idle" /\ exitKind' = "stopped"
    /\ UNCHANGED <<run, slotVars, wqVars, timer, devVars, localVars, log,
                   callerVars, calls, takenCalls, stopReturned>>
    /\ UNCHANGED <<data_layout, data_buf, lock, gemVars, auxVars>>

\* while (gm12u320->fb_update.run)
WorkerCheck ==
    /\ wpc = "check"
    /\ IF run
       THEN wpc' = "drain" /\ exitKind' = exitKind
       ELSE wpc' = "idle" /\ exitKind' = "stopped"
    /\ UNCHANGED <<run, slotVars, wqVars, timer, devVars, localVars, log,
                   callerVars, calls, takenCalls, stopReturned>>
    /\ UNCHANGED <<data_layout, data_buf, lock, gemVars, auxVars>>

\* A mutation of WorkerUnlock: a critical section of the worker keeps the lock.
WorkerKeepsLock == "worker"

\* mutex_unlock(&fb_update.lock) at the end of a critical section of the worker.
WorkerUnlock == "free"

\* A mutation of WorkerDrain: the slot is read but not cleared.
WorkerDrainKeep ==
    /\ wpc = "drain"
    /\ fb' = pfb
    /\ taken' = preg
    /\ UNCHANGED <<pfb, preg>>
    /\ takenCalls' = calls
    /\ calls' = <<>>
    /\ log' = <<>>
    /\ wpc' = "prepare"
    /\ UNCHANGED <<run, wqVars, timer, devVars, block, frame,
                   draw_status_timeout, ret, callerVars, stopReturned, exitKind>>
    /\ lock = "free" /\ lock' = WorkerUnlock
    /\ UNCHANGED <<data_layout, data_buf, gemVars, auxVars>>

\* The take-and-clear under fb_update.lock.
WorkerDrain ==
    /\ wpc = "drain"
    /\ fb' = pfb
    /\ taken' = preg
    /\ pfb' = NoFb
    /\ preg' = preg
    /\ takenCalls' = calls
    /\ calls' = <<>>
    /\ log' = <<>>
    /\ wpc' = "prepare"
    /\ UNCHANGED <<run, wqVars, timer, devVars, block, frame,
                   draw_status_timeout, ret, callerVars, stopReturned, exitKind>>
    /\ lock = "free" /\ lock' = WorkerUnlock
    /\ UNCHANGED <<data_layout, data_buf, gemVars, auxVars>>

\* A mutation of AfterAlloc: a failed allocation ends the worker.
AfterAllocExit(a) == IF a THEN "cmd" ELSE "idle"

\* if (capture_buffer) ... goto send_data; else goto continue_loop;
AfterAlloc(a) == IF a THEN "cmd" ELSE "skipwait"

\* if (fb) mark the whole frame dirty again and fall through to send_data
\* with the data blocks as they are; else allocate the capture buffer
\* (allocation result a), fill the data blocks from the captured screen and
\* go to send_data, or skip the cycle (continue_loop) when the allocation
\* fails.  The locals x1, x2,
\* y1, y2 are only printed before this point and never read after it.
\* A shot is what capture_main_screen hands over: the content (the image
\* file as it is now, or the test pattern of this call) and its size.
WorkerCapture(Allocs, Shots) ==
    /\ wpc = "prepare"
    /\ takenCalls' = <<>>
    /\ IF fb # NoFb
       THEN /\ lock = "free" /\ lock' = "free"
            /\ pfb' = MarkSlot(pfb, preg, fb, FullFrame).fb
            /\ preg' = MarkSlot(pfb, preg, fb, FullFrame).reg
            /\ calls' = Append(calls, [fb |-> fb, reg |-> FullFrame])
            /\ wpc' = "cmd"
            /\ data_buf' = data_buf
            /\ data_layout' = data_layout
       ELSE /\ UNCHANGED <<pfb, preg, calls, lock>>
            /\ \E a \in Allocs, shot \in Shots :
                  /\ wpc' = AfterAlloc(a)
                  /\ data_buf' = IF a THEN shot.content ELSE data_buf
                  /\ data_layout' =
                         IF a THEN FillBlocks(data_layout, 0, 0, shot.size)
                         ELSE data_layout
    /\ UNCHANGED <<gemVars, auxVars>>
    /\ block' = 0
    /\ taken' = ZeroRect
    /\ UNCHANGED <<run, wqVars, timer, devVars, frame, draw_status_timeout, fb,
                   ret, log, callerVars, stopReturned, exitKind>>

\* The worker with one screen content, as large as the blocks together.
OneShot == {[content |-> "screen", size |-> TotalContent]}

WorkerPrepare(Allocs) == WorkerCapture(Allocs, OneShot)

\* One usb_bulk_msg of the block loop or of the draw exchange.
Transfer(kind, tmo, okpc, Outs) ==
    \E o \in Outs :
        /\ log' = Append(log, Entry(kind, o, tmo))
        /\ ret' = o.ret
        /\ wpc' = AfterTransfer(o, okpc)
        /\ exitKind' = IF AfterTransfer(o, okpc) = "idle" THEN "err" ELSE exitKind
        /\ reported' = IF AfterTransfer(o, okpc) = "idle" THEN ShouldLog(o.ret)
                       ELSE reported
        /\ cmd_buf' = BufferAfter(kind, o)

SendDataCmd(Outs) ==
    /\ wpc = "cmd"
    /\ Transfer("cmd", CMD_TIMEOUT, "data", Outs)
    /\ UNCHANGED <<run, slotVars, wqVars, timer, devVars, block, frame,
                   draw_status_timeout, fb, taken, callerVars, calls,
                   takenCalls, stopReturned>>
    /\ UNCHANGED <<data_layout, data_buf, lock, gemVars, loadVars, config, lastParity>>

SendDataBlock(Outs) ==
    /\ wpc = "data"
    /\ Transfer("data", DATA_TIMEOUT, "status", Outs)
    /\ UNCHANGED <<run, slotVars, wqVars, timer, devVars, block, frame,
                   draw_status_timeout, fb, taken, callerVars, calls,
                   takenCalls, stopReturned>>
    /\ UNCHANGED <<data_layout, data_buf, lock, gemVars, loadVars, config, lastParity>>

\* A mutation of NextAfterStatus: the draw command follows the first block.
NextAfterStatusDraw(b) == "draw"

\* for (block = 0; block < GM12U320_BLOCK_COUNT; block++): where the worker
\* goes after the status read of block b.
NextAfterStatus(b) == IF b + 1 < GM12U320_BLOCK_COUNT THEN "cmd" ELSE "draw"

\* The status read of a block; on success the loop moves to the next block or
\* leaves for the draw command.
ReadStatus(Outs) ==
    /\ wpc = "status"
    /\ Transfer("status", CMD_TIMEOUT, NextAfterStatus(block), Outs)
    /\ block' = IF wpc' = "cmd" THEN block + 1 ELSE block
    /\ UNCHANGED <<run, slotVars, wqVars, timer, devVars, frame,
                   draw_status_timeout, fb, taken, callerVars, calls,
                   takenCalls, stopReturned>>
    /\ UNCHANGED <<data_layout, data_buf, lock, gemVars, loadVars, config, lastParity>>

SendDrawCmd(Outs) ==
    /\ wpc = "draw"
    /\ Transfer("draw", CMD_TIMEOUT, "drawstatus", Outs)
    /\ UNCHANGED <<run, slotVars, wqVars, timer, devVars, block, frame,
                   draw_status_timeout, fb, taken, callerVars, calls,
                   takenCalls, stopReturned>>
    /\ UNCHANGED <<data_layout, data_buf, lock, gemVars, loadVars, config, lastParity>>

\* A mutation of TimeoutAfterDraw: the timeout stays as it is.
TimeoutAfterDrawKeep(t) == t

\* draw_status_timeout = CMD_TIMEOUT;
TimeoutAfterDraw(t) == CMD_TIMEOUT

\* The draw status read; on success the timeout drops and the parity flips.
ReadDrawStatus(Outs) ==
    /\ wpc = "drawstatus"
    /\ Transfer("drawstatus", draw_status_timeout, "wait", Outs)
    /\ IF wpc' = "wait"
       THEN /\ draw_status_timeout' = TimeoutAfterDraw(draw_status_timeout)
            /\ frame' = Flip(frame)
            /\ lastParity' = {frame}
       ELSE UNCHANGED <<draw_status_timeout, frame, lastParity>>
    /\ UNCHANGED <<run, slotVars, wqVars, timer, devVars, block, fb, taken,
                   callerVars, calls, takenCalls, stopReturned>>
    /\ UNCHANGED <<data_layout, data_buf, lock, gemVars, loadVars, config>>

\* wait_event_timeout evaluates gm12u320_fb_update_ready first and sleeps only
\* when it is false (after a cycle, and at continue_loop after a skipped one).
WorkerWait ==
    /\ wpc \in {"wait", "skipwait"}
    /\ wpc' = IF FbUpdateReady THEN "check"
              ELSE IF wpc = "wait" THEN "sleep" ELSE "skipsleep"
    /\ UNCHANGED <<run, slotVars, wqVars, timer, devVars, localVars, log,
                   callerVars, histVars>>
    /\ lock = "free" /\ lock' = WorkerUnlock
    /\ UNCHANGED <<data_layout, data_buf, gemVars, auxVars>>

\* A mutation of WorkerTimeout: the wait has no timeout.
WorkerTimeoutNever ==
    /\ FALSE
    /\ UNCHANGED vars

\* The idle timeout elapses.
WorkerTimeout ==
    /\ wpc \in {"sleep", "skipsleep"}
    /\ wpc' = "check"
    /\ UNCHANGED <<run, slotVars, wqVars, timer, devVars, localVars, log,
                   callerVars, histVars>>
    /\ UNCHANGED <<data_layout, data_buf, lock, gemVars, auxVars>>

(***************************************************************************)
(* gm12u320_start_fb_update, gm12u320_fb_update_timer                      *)
(***************************************************************************)

\* A caller of gm12u320_start_fb_update sets the run flag under the lock.
StartSetRun ==
    /\ devAlive /\ upc = "idle" /\ spc = "idle" /\ startpc = "idle"
    /\ run' = TRUE
    /\ startpc' = "queue"
    /\ stopReturned' = FALSE
    /\ UNCHANGED <<slotVars, wqVars, timer, devVars, wpc, localVars, log, spc,
                   upc, calls, takenCalls, exitKind>>
    /\ lock = "free" /\ lock' = "free"
    /\ UNCHANGED <<data_layout, data_buf, gemVars, auxVars>>

\* ... and queues the work.
StartQueue ==
    /\ startpc = "queue"
    /\ workPending' = QueueWork(workPending, canceling)
    /\ startpc' = "idle"
    /\ UNCHANGED <<run, slotVars, canceling, timer, devVars, wpc, localVars,
                   log, spc, upc, histVars>>
    /\ UNCHANGED <<data_layout, data_buf, lock, gemVars, auxVars>>

\* The timer armed by gm12u320_driver_load expires: its callback calls
\* gm12u320_start_fb_update, which first sets the run flag.
TimerFire ==
    /\ timer = "armed" /\ devAlive
    /\ run' = TRUE
    /\ timer' = "firing"
    /\ UNCHANGED <<slotVars, wqVars, devVars, wpc, localVars, log, callerVars,
                   histVars>>
    /\ lock = "free" /\ lock' = "free"
    /\ UNCHANGED <<data_layout, data_buf, gemVars, auxVars>>

\* gm12u320_driver_unload frees the device with the timer still armed: the
\* timer expires and gm12u320_fb_update_timer runs on the freed structure.
\* What its writes to freed memory do is not followed further.
TimerFireLate ==
    /\ timer = "armed" /\ ~devAlive
    /\ timer' = "late"
    /\ UNCHANGED <<run, slotVars, wqVars, devVars, wpc, localVars, log,
                   callerVars, histVars>>
    /\ UNCHANGED <<data_layout, data_buf, lock, gemVars, auxVars>>

\* The callback queues the work and returns.
TimerQueue ==
    /\ timer = "firing"
    /\ workPending' = QueueWork(workPending, canceling)
    /\ timer' = "idle"
    /\ UNCHANGED <<run, slotVars, canceling, devVars, wpc, localVars, log,
                   callerVars, histVars>>
    /\ UNCHANGED <<data_layout, data_buf, lock, gemVars, auxVars>>

(***************************************************************************)
(* gm12u320_stop_fb_update                                                 *)
(***************************************************************************)

\* run = false, under the lock.
StopClearRun ==
    /\ devAlive /\ upc = "idle" /\ spc = "idle" /\ startpc = "idle"
    /\ run' = FALSE
    /\ spc' = "wake"
    /\ stopReturned' = FALSE
    /\ UNCHANGED <<slotVars, wqVars, timer, devVars, wpc, localVars, log,
                   startpc, upc, calls, takenCalls, exitKind>>
    /\ lock = "free" /\ lock' = "free"
    /\ UNCHANGED <<data_layout, data_buf, gemVars, auxVars>>

\* wake_up(&fb_update.waitq)
StopWake ==
    /\ spc = "wake"
    /\ wpc' = WakeUp(wpc)
    /\ spc' = "cancel"
    /\ UNCHANGED <<run, slotVars, wqVars, timer, devVars, localVars, log,
                   startpc, upc, histVars>>
    /\ UNCHANGED <<data_layout, data_buf, lock, gemVars, auxVars>>

\* cancel_work_sync takes the work off the queue and keeps its pending bit ...
StopCancel ==
    /\ spc = "cancel"
    /\ workPending' = FALSE
    /\ canceling' = TRUE
    /\ spc' = "cancelwait"
    /\ UNCHANGED <<run, slotVars, timer, devVars, wpc, localVars, log, startpc,
                   upc, histVars>>
    /\ UNCHANGED <<data_layout, data_buf, lock, gemVars, auxVars>>

\* ... and waits until a running invocation has returned.
StopCancelWait ==
    /\ spc = "cancelwait"
    /\ wpc = "idle"
    /\ canceling' = FALSE
    /\ spc' = "deltimer"
    /\ UNCHANGED <<run, slotVars, workPending, timer, devVars, wpc, localVars,
                   log, startpc, upc, histVars>>
    /\ UNCHANGED <<data_layout, data_buf, lock, gemVars, auxVars>>

\* del_timer_sync deactivates the timer once no callback is running.
StopDelTimer ==
    /\ spc = "deltimer"
    /\ timer # "firing"
    /\ timer' = "idle"
    /\ spc' = "clear"
    /\ UNCHANGED <<run, slotVars, wqVars, devVars, wpc, localVars, log,
                   startpc, upc, histVars>>
    /\ UNCHANGED <<data_layout, data_buf, lock, gemVars, auxVars>>

\* The pending buffer is dropped under the lock, and stop returns.
StopClearFb ==
    /\ spc = "clear"
    /\ pfb' = NoFb
    /\ preg' = preg
    /\ calls' = <<>>
    /\ spc' = "idle"
    /\ stopReturned' = TRUE
    /\ UNCHANGED <<run, wqVars, timer, devVars, wpc, localVars, log, startpc,
                   upc, takenCalls, exitKind>>
    /\ lock = "free" /\ lock' = "free"
    /\ UNCHANGED <<data_layout, data_buf, gemVars, auxVars>>

(***************************************************************************)
(* gm12u320_driver_unload                                                  *)
(***************************************************************************)

\* gm12u320_usb_free: kfree of every data_buf[i] and of cmd_buf.
UsbFree(held) == 0

\* The caller enters unload: gm12u320_fbdev_cleanup, gm12u320_modeset_cleanup.
UnloadBegin ==
    /\ devAlive /\ upc = "idle" /\ spc = "idle" /\ startpc = "idle"
    /\ upc' = "usbfree"
    /\ UNCHANGED <<run, slotVars, wqVars, timer, devVars, wpc, localVars, log,
                   startpc, spc, histVars>>
    /\ UNCHANGED <<data_layout, data_buf, lock, gemVars, auxVars>>

\* gm12u320_usb_free
UnloadUsbFree ==
    /\ upc = "usbfree"
    /\ usb' = "freed"
    /\ usb_held' = UsbFree(usb_held)
    /\ upc' = "destroywq"
    /\ UNCHANGED <<run, slotVars, wqVars, timer, wqAlive, devAlive, wpc,
                   localVars, log, startpc, spc, histVars>>
    /\ UNCHANGED <<data_layout, data_buf, lock, gemVars, config, reported,
                   cmd_buf, lastParity, lpc, lret, dumb>>

\* destroy_workqueue drains the queue: it returns once no work is queued or
\* running.
UnloadDestroyWq ==
    /\ upc = "destroywq"
    /\ ~workPending /\ wpc = "idle"
    /\ wqAlive' = FALSE
    /\ upc' = "kfree"
    /\ UNCHANGED <<run, slotVars, wqVars, timer, usb, devAlive, wpc, localVars,
                   log, startpc, spc, histVars>>
    /\ UNCHANGED <<data_layout, data_buf, lock, gemVars, auxVars>>

\* kfree(gm12u320); dev->dev_private = 0
UnloadKfree ==
    /\ upc = "kfree"
    /\ devAlive' = FALSE
    /\ upc' = "done"
    /\ UNCHANGED <<run, slotVars, wqVars, timer, usb, wqAlive, wpc, localVars,
                   log, startpc, spc, histVars>>
    /\ UNCHANGED <<data_layout, data_buf, lock, gemVars, auxVars>>

(***************************************************************************)
(* GEM buffer objects (src/gm12u320_gem.c)                                 *)
(***************************************************************************)

\* A mutation of RoundUp: the size is taken as it is.
RoundUpNone(x, a) == x

\* roundup(size, PAGE_SIZE) of gm12u320_gem_create; ALIGN(size, PAGE_SIZE) of
\* the framebuffer code.
RoundUp(x, a) == ((x + a - 1) \div a) * a

\* page_count = obj->base.size / PAGE_SIZE
PageCount(size) == size \div PAGE_SIZE

\* The callers of gm12u320_gem_alloc_object (gm12u320_gem_create and the
\* framebuffer code) round the size they were asked for up to whole pages;
\* gm12u320_gem_alloc_object makes a locally backed object of that size with
\* no pages yet (kzalloc).
GemAllocObject ==
    /\ gobj = "none" /\ gpc = "idle"
    /\ gobj' = "live"
    /\ import_attach' = FALSE
    /\ \E sz \in 1..(MaxPages * PAGE_SIZE) :
          /\ reqSize' = sz
          /\ obj_size' = RoundUp(sz, PAGE_SIZE)
          /\ page_count' = PageCount(RoundUp(sz, PAGE_SIZE))
    /\ UNCHANGED <<obj_pages, vmapping, heldPages, heldArray, vmapArea, extMap,
                   gpc, gi, gcaller, gret, vmfault>>
    /\ UNCHANGED <<engineVars, loadVars>>

\* An object that wraps a buffer of another exporter: import_attach is set
\* and the object has no pages of its own.
GemImport ==
    /\ gobj = "none" /\ gpc = "idle"
    /\ gobj' = "live"
    /\ import_attach' = TRUE
    /\ \E n \in 1..MaxPages :
          /\ reqSize' = n * PAGE_SIZE
          /\ obj_size' = n * PAGE_SIZE
          /\ page_count' = PageCount(n * PAGE_SIZE)
    /\ UNCHANGED <<obj_pages, vmapping, heldPages, heldArray, vmapArea, extMap,
                   gpc, gi, gcaller, gret, vmfault>>
    /\ UNCHANGED <<engineVars, loadVars>>

\* A mutation of VmapUsesImport: gm12u320_gem_vmap does not look at
\* import_attach.
VmapIgnoresImport == FALSE

\* if (obj->base.import_attach) in gm12u320_gem_vmap
VmapUsesImport == import_attach

\* gm12u320_gem_vmap up to its call of gm12u320_gem_get_pages: an imported
\* object takes the exporter's mapping (dma_buf_vmap may fail) and returns.
GemVmapCall ==
    /\ gobj = "live" /\ gpc = "idle" /\ vmapping = "NULL"
    /\ IF VmapUsesImport
       THEN /\ \E a \in BOOLEAN :
                  /\ vmapping' = IF a THEN "dmabuf" ELSE vmapping
                  /\ extMap' = a
                  /\ gret' = IF a THEN "OK" ELSE "ERR"
            /\ UNCHANGED <<gpc, gcaller>>
       ELSE /\ gpc' = "getpages"
            /\ gcaller' = "vmap"
            /\ UNCHANGED <<vmapping, extMap, gret>>
    /\ UNCHANGED <<gobj, import_attach, page_count, obj_pages, heldPages,
                   heldArray, vmapArea, gi>>
    /\ UNCHANGED <<obj_size, reqSize, vmfault>>
    /\ UNCHANGED <<engineVars, loadVars>>

\* gm12u320_gem_mmap of a handle from gm12u320_dumb_create, up to its call of
\* gm12u320_gem_get_pages.
GemMmapCall ==
    /\ gobj = "live" /\ gpc = "idle" /\ ~import_attach
    /\ gpc' = "getpages"
    /\ gcaller' = "mmap"
    /\ UNCHANGED <<gobj, import_attach, page_count, obj_pages, vmapping,
                   heldPages, heldArray, vmapArea, extMap, gi, gret>>
    /\ UNCHANGED <<obj_size, reqSize, vmfault>>
    /\ UNCHANGED <<engineVars, loadVars>>

\* gm12u320_gem_get_pages before its loop: pages that exist are kept; else
\* the page array is allocated (kvmalloc_array may fail).
GetPagesEntry ==
    /\ gpc = "getpages"
    /\ gi' = 0
    /\ IF obj_pages
       THEN gret' = "OK" /\ gpc' = "ret" /\ heldArray' = heldArray
       ELSE \E a \in BOOLEAN :
               /\ heldArray' = a
               /\ gpc' = IF a THEN "loop" ELSE "ret"
               /\ gret' = IF a THEN gret ELSE "ENOMEM"
    /\ UNCHANGED <<gobj, import_attach, page_count, obj_pages, vmapping,
                   heldPages, vmapArea, extMap, gcaller>>
    /\ UNCHANGED <<obj_size, reqSize, vmfault>>
    /\ UNCHANGED <<engineVars, loadVars>>

\* A mutation of FreeAllocated: the first page is not given back.
FreeAllocatedButFirst(held, i) == IF i > 0 THEN held - (i - 1) ELSE held

\* while (--i >= 0) __free_page(pages[i]);  the pages held after a failure at
\* index i.
FreeAllocated(held, i) == held - i

\* One iteration of the loop of gm12u320_gem_get_pages: alloc_page succeeds
\* (after the last page obj->pages is set and 0 is returned) or fails (the
\* pages of this call and the array are released and -ENOMEM is returned).
GetPagesAllocPage ==
    /\ gpc = "loop"
    /\ \E a \in BOOLEAN :
          IF a
          THEN /\ heldPages' = heldPages + 1
               /\ gi' = gi + 1
               /\ heldArray' = heldArray
               /\ IF gi + 1 = page_count
                  THEN obj_pages' = TRUE /\ gret' = "OK" /\ gpc' = "ret"
                  ELSE UNCHANGED <<obj_pages, gret, gpc>>
          ELSE /\ heldPages' = FreeAllocated(heldPages, gi)
               /\ heldArray' = FALSE
               /\ gret' = "ENOMEM"
               /\ gpc' = "ret"
               /\ UNCHANGED <<gi, obj_pages>>
    /\ UNCHANGED <<gobj, import_attach, page_count, vmapping, vmapArea, extMap,
                   gcaller>>
    /\ UNCHANGED <<obj_size, reqSize, vmfault>>
    /\ UNCHANGED <<engineVars, loadVars>>

\* gm12u320_gem_vmap after gm12u320_gem_get_pages: an error is passed on;
\* else vmap() gives the mapping or fails, and a failure returns -ENOMEM
\* with obj->pages as it is.
GemVmapReturn ==
    /\ gpc = "ret" /\ gcaller = "vmap"
    /\ gpc' = "idle"
    /\ gcaller' = "none"
    /\ IF gret # "OK"
       THEN UNCHANGED <<vmapping, vmapArea, gret>>
       ELSE \E a \in BOOLEAN :
               /\ vmapping' = IF a THEN "vmap" ELSE vmapping
               /\ vmapArea' = a
               /\ gret' = IF a THEN "OK" ELSE "ENOMEM"
    /\ UNCHANGED <<gobj, import_attach, page_count, obj_pages, heldPages,
                   heldArray, extMap, gi>>
    /\ UNCHANGED <<obj_size, reqSize, vmfault>>
    /\ UNCHANGED <<engineVars, loadVars>>

\* gm12u320_gem_mmap after gm12u320_gem_get_pages.
GemMmapReturn ==
    /\ gpc = "ret" /\ gcaller = "mmap"
    /\ gpc' = "idle"
    /\ gcaller' = "none"
    /\ UNCHANGED <<gobj, import_attach, page_count, obj_pages, vmapping,
                   heldPages, heldArray, vmapArea, extMap, gi, gret>>
    /\ UNCHANGED <<obj_size, reqSize, vmfault>>
    /\ UNCHANGED <<engineVars, loadVars>>

\* Results of vm_insert_page.
InsertResults == {"0", "EAGAIN", "ERESTARTSYS", "ENOMEM", "EFAULT"}

\* A mutation of FaultResult: an object without pages is out of memory, and
\* only an installed page is a retry.
FaultResultNoPageOom(pages, r) ==
    IF ~pages THEN "OOM"
    ELSE IF r = "0" THEN "NOPAGE" ELSE "SIGBUS"

\* The value gm12u320_gem_fault returns for an object with or without pages
\* and a result r of vm_insert_page.
FaultResult(pages, r) ==
    IF ~pages THEN "SIGBUS"
    ELSE CASE r \in {"EAGAIN", "0", "ERESTARTSYS"} -> "NOPAGE"
           [] r = "ENOMEM" -> "OOM"
           [] OTHER -> "SIGBUS"

\* gm12u320_gem_fault on a mapping of the object; vm_insert_page is reached
\* only when obj->pages is set.
GemFault ==
    /\ gobj = "live" /\ gpc = "idle"
    /\ \E r \in InsertResults :
          vmfault' = [pages |-> obj_pages,
                      insert |-> IF obj_pages THEN r ELSE "none",
                      result |-> FaultResult(obj_pages, r)]
    /\ UNCHANGED <<gobj, import_attach, page_count, obj_pages, vmapping,
                   heldPages, heldArray, vmapArea, extMap, gpc, gi, gcaller,
                   gret, obj_size, reqSize>>
    /\ UNCHANGED <<engineVars, loadVars>>

\* gm12u320_gem_put_pages: kvfree(obj->pages) gives the array back and no
\* page; the pages held after it.
PutPages(held) == held

\* gm12u320_gem_free_object: a mapped object is unmapped (gm12u320_gem_vunmap:
\* dma_buf_vunmap for an imported object, else vunmap and
\* gm12u320_gem_put_pages), and pages that are still set are put.
\* obj->vmapping is left as it is.
GemFreeObject ==
    /\ gobj = "live" /\ gpc = "idle"
    /\ gobj' = "freed"
    /\ extMap' = IF vmapping # "NULL" /\ import_attach THEN FALSE ELSE extMap
    /\ vmapArea' = IF vmapping # "NULL" /\ ~import_attach THEN FALSE ELSE vmapArea
    /\ obj_pages' = FALSE
    /\ heldArray' = IF obj_pages THEN FALSE ELSE heldArray
    /\ heldPages' = IF obj_pages THEN PutPages(heldPages) ELSE heldPages
    /\ UNCHANGED <<import_attach, page_count, vmapping, gpc, gi, gcaller, gret>>
    /\ UNCHANGED <<obj_size, reqSize, vmfault>>
    /\ UNCHANGED <<engineVars, loadVars>>

(***************************************************************************)
(* Specifications                                                          *)
(***************************************************************************)

(***************************************************************************)
(* Fixed-width unsigned arithmetic                                         *)
(***************************************************************************)

\* A __u32 or uint64_t is kept as its bytes, least significant first: four
\* bytes for 32 bits, eight for 64. The operations keep or drop carries as
\* C's unsigned arithmetic of that width does.
RECURSIVE ToLimbs(_, _)
ToLimbs(x, n) ==
    IF n = 0 THEN <<>> ELSE <<x % 256>> \o ToLimbs(x \div 256, n - 1)

\* The 32-bit value hi * 2^16 + lo.
U32(hi, lo) == ToLimbs(lo, 2) \o ToLimbs(hi, 2)

\* Conversion to a wider type: zero extension.
Extend(a, n) == [k \in 1..n |-> IF k <= Len(a) THEN a[k] ELSE 0]

RECURSIVE ColSum(_, _, _, _)
ColSum(a, b, k, i) ==
    IF i > k THEN 0
    ELSE (IF i <= Len(a) /\ k + 1 - i <= Len(b) THEN a[i] * b[k + 1 - i] ELSE 0)
         + ColSum(a, b, k, i + 1)

RECURSIVE MulCols(_, _, _, _, _)
MulCols(a, b, k, n, carry) ==
    IF k > n THEN <<>>
    ELSE LET s == carry + ColSum(a, b, k, 1)
         IN  <<s % 256>> \o MulCols(a, b, k + 1, n, s \div 256)

\* a * b in a type of n bytes: the product modulo 2^(8n).
Mul(a, b, n) == MulCols(a, b, 1, n, 0)

RECURSIVE AddFrom(_, _, _)
AddFrom(a, k, carry) ==
    IF k > Len(a) THEN <<>>
    ELSE LET s == a[k] + carry
         IN  <<s % 256>> \o AddFrom(a, k + 1, s \div 256)

\* a + c in the type of a, for a small c: the carry out of the top byte is
\* lost.
AddSmall(a, c) == AddFrom(a, 1, c)

RECURSIVE DivFrom(_, _, _, _)
DivFrom(a, d, k, rem) ==
    IF k = 0 THEN <<>>
    ELSE LET cur == rem * 256 + a[k]
         IN  DivFrom(a, d, k - 1, cur % d) \o <<cur \div d>>

\* a / d for a small d.
DivSmall(a, d) == DivFrom(a, d, Len(a), 0)

RECURSIVE LessFrom(_, _, _)
LessFrom(a, b, k) ==
    IF k = 0 THEN FALSE
    ELSE IF a[k] # b[k] THEN a[k] < b[k]
    ELSE LessFrom(a, b, k - 1)

\* a < b as numbers, whatever their widths.
Less(a, b) ==
    LET n == IF Len(a) > Len(b) THEN Len(a) ELSE Len(b)
    IN  LessFrom(Extend(a, n), Extend(b, n), n)

(***************************************************************************)
(* gm12u320_dumb_create, gm12u320_gem_create (src/gm12u320_gem.c)          *)
(***************************************************************************)

\* DIV_ROUND_UP(n, d) on a __u32: (n + d - 1) / d in 32 bits.
DivRoundUp32(n, d) == DivSmall(AddSmall(n, d - 1), d)

\* args->pitch = args->width * DIV_ROUND_UP(args->bpp, 8): __u32 operands,
\* a __u32 product.
DumbPitch(width, bpp) == Mul(width, DivRoundUp32(bpp, 8), 4)

\* args->size = args->pitch * args->height: the product of two __u32 is
\* computed in 32 bits and then widened to the __u64 size.
DumbSize(pitch, height) == Extend(Mul(pitch, height, 4), 8)

\* size = roundup(size, PAGE_SIZE) of gm12u320_gem_create, on a uint64_t.
GemCreateSize(size) ==
    Mul(DivSmall(AddSmall(size, PAGE_SIZE - 1), PAGE_SIZE),
        ToLimbs(PAGE_SIZE, 2), 8)

\* width * height * ceil(bpp / 8) as a number, with no width limit: the
\* bytes a buffer of that geometry takes.
BytesNeeded(width, height, bpp) ==
    Mul(Mul(width, height, 8), DivSmall(AddSmall(Extend(bpp, 5), 7), 8), 13)

\* The arguments user space passes in struct drm_mode_create_dumb: display
\* geometries, and values near the ends of the 32-bit range.
DumbWidths == {U32(0, 640), U32(0, 1920), U32(1, 0), U32(1, 1), U32(65535, 65535)}
DumbHeights == {U32(0, 480), U32(0, 1080), U32(1, 0), U32(16384, 0)}
DumbBpps == {U32(0, 8), U32(0, 15), U32(0, 24), U32(0, 32), U32(65535, 65535)}

NoDumb ==
    [width |-> U32(0, 0), height |-> U32(0, 0), bpp |-> U32(0, 0),
     pitch |-> U32(0, 0), size |-> Extend(<<>>, 8), obj |-> Extend(<<>>, 8),
     ret |-> "none"]

\* gm12u320_dumb_create: pitch and size are written to args, then
\* gm12u320_gem_create makes an object of the rounded size and a handle to
\* it, or fails for want of memory and makes none.
DumbCreate ==
    /\ \E w \in DumbWidths, h \in DumbHeights, b \in DumbBpps,
          r \in {"ok", "ENOMEM"} :
        LET pitch == DumbPitch(w, b)
            size == DumbSize(pitch, h)
        IN  dumb' = [width |-> w, height |-> h, bpp |-> b,
                     pitch |-> pitch, size |-> size,
                     obj |-> IF r = "ok" THEN GemCreateSize(size)
                             ELSE Extend(<<>>, 8),
                     ret |-> r]
    /\ UNCHANGED <<engineVars, gemVars, lpc, usb_held, lret>>

\* The state after gm12u320_driver_load with the pointers c: the workqueue
\* created, the slot empty (kzalloc), the start timer armed.
InitState(c) ==
    /\ run = FALSE
    /\ pfb = NoFb
    /\ preg = ZeroRect
    /\ workPending = FALSE
    /\ canceling = FALSE
    /\ timer = "armed"
    /\ usb = "alloc"
    /\ wqAlive = TRUE
    /\ devAlive = TRUE
    /\ wpc = "idle"
    /\ block = 0
    /\ frame = 0
    /\ draw_status_timeout = FIRST_FRAME_TIMEOUT
    /\ fb = NoFb
    /\ taken = ZeroRect
    /\ ret = "OK"
    /\ log = <<>>
    /\ startpc = "idle"
    /\ spc = "idle"
    /\ upc = "idle"
    /\ calls = <<>>
    /\ takenCalls = <<>>
    /\ stopReturned = FALSE
    /\ exitKind = "none"
    /\ config = c
    /\ reported = FALSE
    /\ cmd_buf = [i \in 1..CMD_SIZE |-> UNKNOWN_BYTE]
    /\ lastParity = {}
    /\ obj_size = 0
    /\ reqSize = 0
    /\ vmfault = [pages |-> FALSE, insert |-> "none", result |-> "none"]
    /\ data_buf = "header"
    /\ data_layout = [i \in 0..(GM12U320_BLOCK_COUNT - 1) |-> AllocBlock(i)]
    /\ lock = "free"
    /\ gobj = "none"
    /\ import_attach = FALSE
    /\ page_count = 1
    /\ obj_pages = FALSE
    /\ vmapping = "NULL"
    /\ heldPages = 0
    /\ heldArray = FALSE
    /\ vmapArea = FALSE
    /\ extMap = FALSE
    /\ gpc = "idle"
    /\ gi = 0
    /\ gcaller = "none"
    /\ gret = "none"
    /\ lpc = "done"
    /\ usb_held = GM12U320_BLOCK_COUNT + 1
    /\ lret = "ok"
    /\ dumb = NoDumb

\* The state gm12u320_driver_load leaves on success: buffers allocated too.
Init == InitState(ValidConfig)

Allocations == {TRUE, FALSE}

WPrepare == WorkerPrepare(Allocations)
WSendDataCmd == SendDataCmd(Outcomes)
WSendDataBlock == SendDataBlock(Outcomes)
WReadStatus == ReadStatus(Outcomes)
WSendDrawCmd == SendDrawCmd(Outcomes)
WReadDrawStatus == ReadDrawStatus(Outcomes)

\* The same transfers on a transport that always succeeds with the expected
\* length.
OkSendDataCmd == SendDataCmd({Success})
OkSendDataBlock == SendDataBlock({Success})
OkReadStatus == ReadStatus({Success})
OkSendDrawCmd == SendDrawCmd({Success})
OkReadDrawStatus == ReadDrawStatus({Success})

\* The dirty-region tracker: producers marking any sample region of any
\* buffer, and the worker started by the timer on a transport that succeeds.
NextDirty ==
    \/ Producer
    \/ TimerFire
    \/ TimerQueue
    \/ WorkerStart
    \/ WorkerEntry
    \/ WorkerCheck
    \/ WorkerDrain
    \/ WPrepare
    \/ OkSendDataCmd
    \/ OkSendDataBlock
    \/ OkReadStatus
    \/ OkSendDrawCmd
    \/ OkReadDrawStatus
    \/ WorkerWait
    \/ WorkerTimeout

\* The whole engine: also stop and unload.
Next ==
    \/ ProducerOne
    \/ StartSetRun
    \/ StartQueue
    \/ TimerFire
    \/ TimerFireLate
    \/ TimerQueue
    \/ WorkerStart
    \/ WorkerEntry
    \/ WorkerCheck
    \/ WorkerDrain
    \/ WPrepare
    \/ WSendDataCmd
    \/ WSendDataBlock
    \/ WReadStatus
    \/ WSendDrawCmd
    \/ WReadDrawStatus
    \/ WorkerWait
    \/ WorkerTimeout
    \/ StopClearRun
    \/ StopWake
    \/ StopCancel
    \/ StopCancelWait
    \/ StopDelTimer
    \/ StopClearFb
    \/ UnloadBegin
    \/ UnloadUsbFree
    \/ UnloadDestroyWq
    \/ UnloadKfree

Spec == Init /\ [][Next]_vars

SpecDirty == Init /\ [][NextDirty]_vars

\* The GEM buffer manager: one object is created (allocated or imported),
\* mapped and released, with every allocation free to fail.
NextGem ==
    \/ GemAllocObject
    \/ GemImport
    \/ GemVmapCall
    \/ GemMmapCall
    \/ GetPagesEntry
    \/ GetPagesAllocPage
    \/ GemVmapReturn
    \/ GemMmapReturn
    \/ GemFault
    \/ GemFreeObject

SpecGem == Init /\ [][NextGem]_vars

TypeOK ==
    /\ run \in BOOLEAN
    /\ pfb \in Fbs \cup {NoFb}
    /\ wpc \in {"idle", "entry", "check", "drain", "prepare", "cmd", "data",
                "status", "draw", "drawstatus", "wait", "sleep", "skipwait",
                "skipsleep"}
    /\ block \in 0..(GM12U320_BLOCK_COUNT - 1)
    /\ frame \in {0, 1}
    /\ draw_status_timeout \in {FIRST_FRAME_TIMEOUT, CMD_TIMEOUT}
    /\ timer \in {"armed", "firing", "idle", "late"}
    /\ lpc \in {"entry", "workq", "usb_cmd", "usb_data", "outputs", "done",
                "failed"}
    /\ usb_held \in 0..(GM12U320_BLOCK_COUNT + 1)
    /\ lret \in {"none", "ok", "ENOMEM", "modeset", "fbdev", "vblank"}
    /\ dumb.ret \in {"none", "ok", "ENOMEM"}

\* The worker on a transport that always succeeds and with memory for the
\* capture buffer, started by the timer; producers may call at any time.
OkPrepare == WorkerPrepare({TRUE})

WorkerLive ==
    \/ WorkerStart
    \/ WorkerEntry
    \/ WorkerCheck
    \/ WorkerDrain
    \/ OkPrepare
    \/ OkSendDataCmd
    \/ OkSendDataBlock
    \/ OkReadStatus
    \/ OkSendDrawCmd
    \/ OkReadDrawStatus
    \/ WorkerWait
    \/ WorkerTimeout

NextLive ==
    \/ ProducerOne
    \/ TimerFire
    \/ TimerQueue
    \/ WorkerStart
    \/ WorkerEntry
    \/ WorkerCheck
    \/ WorkerDrain
    \/ OkPrepare
    \/ OkSendDataCmd
    \/ OkSendDataBlock
    \/ OkReadStatus
    \/ OkSendDrawCmd
    \/ OkReadDrawStatus
    \/ WorkerWait
    \/ WorkerTimeout

\* The timer expires and its callback runs to its end; the workqueue thread
\* runs the worker; every usb_bulk_msg returns and the idle timeout elapses.
\* Producers are under no obligation to call.
SpecLive ==
    /\ Init
    /\ [][NextLive]_vars
    /\ WF_vars(TimerFire \/ TimerQueue)
    /\ WF_vars(WorkerLive)

\* The pointers the NULL checks of the worker look at: all set, or one of
\* them missing.
Configs ==
    {ValidConfig,
     [ValidConfig EXCEPT !.dev = FALSE],
     [ValidConfig EXCEPT !.udev = FALSE],
     [ValidConfig EXCEPT !.cmd = FALSE]}
    \cup {[ValidConfig EXCEPT !.data = @ \ {k}] :
             k \in 0..(GM12U320_BLOCK_COUNT - 1)}

InitConfig == \E c \in Configs : InitState(c)

\* The engine started by the timer on a device with any of these pointers.
SpecConfig == InitConfig /\ [][NextLive]_vars

\* What capture_main_screen may hand over from call to call: one of two
\* screen contents, of a size below, at or above what the blocks hold.
Shots ==
    [content : {"screen", "screen2"},
     size : {DATA_BLOCK_CONTENT_SIZE - 1, TotalContent - 1, TotalContent,
             TotalContent + 1}]

CapPrepare == WorkerCapture({TRUE}, Shots)

\* The worker started by the timer on a transport that succeeds, capturing
\* any of these shots.
NextCapture ==
    \/ ProducerOne
    \/ TimerFire
    \/ TimerQueue
    \/ WorkerStart
    \/ WorkerEntry
    \/ WorkerCheck
    \/ WorkerDrain
    \/ CapPrepare
    \/ OkSendDataCmd
    \/ OkSendDataBlock
    \/ OkReadStatus
    \/ OkSendDrawCmd
    \/ OkReadDrawStatus
    \/ WorkerWait
    \/ WorkerTimeout

SpecCapture == Init /\ [][NextCapture]_vars

\* Width and height of the framebuffers: A as large as the projector's
\* frame, B the 640 x 480 buffer of gm12u320_register_framebuffer_device.
FbWidth(f) == IF f = "A" THEN FullFrame.x2 ELSE 640
FbHeight(f) == FullFrame.y2

\* The loop of gm12u320_user_framebuffer_dirty over the clips: minimum and
\* maximum of the coordinates as they come, nothing is compared with the
\* framebuffer or put in order.
RECURSIVE ClipBox(_)
ClipBox(clips) ==
    IF Len(clips) = 1 THEN clips[1]
    ELSE LET r == ClipBox(SubSeq(clips, 1, Len(clips) - 1))
             c == clips[Len(clips)]
         IN  Rect(Min(r.x1, c.x1), Max(r.x2, c.x2),
                  Min(r.y1, c.y1), Max(r.y2, c.y2))

\* Clip lists a client passes with the dirty ioctl: inside the buffer, with
\* x1 > x2, and reaching past the width of either buffer.
ClipLists ==
    {<<Rect(0, 10, 0, 10)>>,
     <<Rect(0, 10, 0, 10), Rect(5, 20, 5, 20)>>,
     <<Rect(10, 0, 0, 10)>>,
     <<Rect(0, 900, 0, 10)>>}

\* gm12u320_user_framebuffer_dirty
FramebufferDirty ==
    \E f \in Fbs, clips \in ClipLists : MarkDirty(f, ClipBox(clips))

\* The dirty-region tracker fed by the dirty ioctl, the worker started by the
\* timer on a transport that succeeds.
NextClip ==
    \/ FramebufferDirty
    \/ TimerFire
    \/ TimerQueue
    \/ WorkerStart
    \/ WorkerEntry
    \/ WorkerCheck
    \/ WorkerDrain
    \/ WPrepare
    \/ OkSendDataCmd
    \/ OkSendDataBlock
    \/ OkReadStatus
    \/ OkSendDrawCmd
    \/ OkReadDrawStatus
    \/ WorkerWait
    \/ WorkerTimeout

SpecClip == Init /\ [][NextClip]_vars

\* Start, stop and the timer around the worker on a transport that always
\* succeeds.
StopSteps ==
    \/ StopWake
    \/ StopCancel
    \/ StopCancelWait
    \/ StopDelTimer
    \/ StopClearFb

\* gm12u320_stop_fb_update called while the worker is in its loop.
StopCalledInLoop ==
    /\ wpc \notin {"idle", "entry"}
    /\ StopClearRun

NextStop ==
    \/ StartSetRun
    \/ StartQueue
    \/ TimerFire
    \/ TimerQueue
    \/ WorkerStart
    \/ WorkerEntry
    \/ WorkerCheck
    \/ WorkerDrain
    \/ OkPrepare
    \/ OkSendDataCmd
    \/ OkSendDataBlock
    \/ OkReadStatus
    \/ OkSendDrawCmd
    \/ OkReadDrawStatus
    \/ WorkerWait
    \/ WorkerTimeout
    \/ StopCalledInLoop
    \/ StopWake
    \/ StopCancel
    \/ StopCancelWait
    \/ StopDelTimer
    \/ StopClearFb

\* Every usb_bulk_msg returns and the idle timeout elapses; the workqueue
\* thread runs the worker; a caller inside start, stop or the timer callback
\* runs on to the end of the function.  When the timer expires, and when
\* start and stop are called, is up to the environment.
SpecStop ==
    /\ Init
    /\ [][NextStop]_vars
    /\ WF_vars(WorkerLive)
    /\ WF_vars(StopSteps)
    /\ WF_vars(StartQueue)
    /\ WF_vars(TimerQueue)

(***************************************************************************)
(* Properties                                                              *)
(***************************************************************************)

TransferCount == 3 * GM12U320_BLOCK_COUNT + 2

\* The worker has just completed a cycle: every block exchange, the draw
\* command and the draw status read succeeded.
CycleDone ==
    /\ wpc = "wait"
    /\ Len(log) = TransferCount
    /\ \A i \in 1..Len(log) : log[i].ok

\* The worker is at the first transfer of a new cycle.
CycleBegun == wpc = "cmd" /\ block = 0 /\ log = <<>>

WorkerStarts == wpc = "idle" /\ wpc' = "entry"
DrawSucceeds == wpc = "drawstatus" /\ wpc' = "wait"

\* C1: within an invocation of the worker the parity starts at 0, is flipped
\* exactly by the step that completes a fully successful cycle, and is left
\* unchanged by every other step (aborting, skipped, waiting).
C1_ParityFlipsOnSuccessOnly ==
    [][/\ WorkerStarts => frame' = 0
       /\ DrawSucceeds => (frame' = 1 - frame /\ CycleDone'
                           /\ \A i \in 1..Len(log) : log[i].parity = frame)
       /\ (~WorkerStarts /\ ~DrawSucceeds) => frame' = frame]_vars

\* C1 witness: after one successful cycle (parity 1) the next cycle aborted
\* and the parity is still 1.
C1_Witness == exitKind = "err" /\ frame = 1 /\ log # <<>> /\ log[1].parity = 1

\* C2: once gm12u320_stop_fb_update has returned (and start was not called
\* again by a caller) the worker issues no bulk transfer.
C2_NoTransferAfterStop ==
    [][stopReturned => Len(log') # Len(log) + 1]_vars

\* C3: a failed cycle never ends the worker: the worker leaves its loop only
\* when the run flag is clear.
C3_ErrorNeverStopsWorker ==
    [][(wpc # "idle" /\ wpc' = "idle") => ~run]_vars

\* C4: a transfer that fails (status or length) is the last transfer of its
\* cycle: no further block is exchanged, no draw command is sent, and the
\* worker has left the cycle.
C4_AbortIsImmediate ==
    \A i \in 1..Len(log) :
        ~log[i].ok =>
            /\ i = Len(log)
            /\ wpc = "idle"
            /\ (log[i].kind \in {"cmd", "data", "status"} =>
                    \A j \in 1..Len(log) : log[j].kind \notin {"draw", "drawstatus"})

\* C4 witness: the data command of the 3rd block failed after two complete
\* block exchanges.
C4_Witness ==
    /\ Len(log) = 7
    /\ log[7].kind = "cmd" /\ log[7].block = 2 /\ ~log[7].ok
    /\ wpc = "idle"

\* C5: the USB buffers are freed only when the worker has exited and is not
\* queued to run.
C5_JoinBeforeTeardown ==
    usb = "freed" => (wpc = "idle" /\ ~workPending)

LastCall(h) == h[Len(h)]

\* C6: the pending region is the bounding box of the mark_dirty calls made
\* for the pending buffer since the slot was last emptied, whatever
\* coordinates the slot held before; the worker's take-and-clear hands
\* over exactly that buffer and box.
C6_PendingIsBoundingBox ==
    /\ pfb # NoFb =>
          /\ calls # <<>>
          /\ pfb = LastCall(calls).fb
          /\ preg = BBox(LastRun(calls))
    /\ wpc = "prepare" =>
          IF takenCalls = <<>>
          THEN fb = NoFb
          ELSE fb = LastCall(takenCalls).fb /\ taken = BBox(LastRun(takenCalls))

\* C6 witness: (0,10,0,10) then (5,20,5,20) on buffer A were drained as
\* (0,20,0,20).
C6_Witness ==
    /\ wpc = "prepare"
    /\ takenCalls = <<[fb |-> "A", reg |-> Rect(0, 10, 0, 10)],
                      [fb |-> "A", reg |-> Rect(5, 20, 5, 20)]>>
    /\ fb = "A"
    /\ taken = Rect(0, 20, 0, 20)

\* C7: a call for a buffer other than the pending one leaves exactly that
\* call's buffer and region in the slot; the slot names one buffer or none.
C7_OtherBufferReplaces ==
    /\ pfb \in Fbs \cup {NoFb}
    /\ (Len(calls) >= 2 /\ LastCall(calls).fb # calls[Len(calls) - 1].fb) =>
          (pfb = LastCall(calls).fb /\ preg = LastCall(calls).reg)

\* C7 witness: B was marked while A was pending with a region that B's
\* region does not cover.
C7_Witness ==
    /\ calls = <<[fb |-> "A", reg |-> Rect(0, 10, 0, 10)],
                 [fb |-> "B", reg |-> Rect(5, 20, 5, 20)]>>
    /\ pfb = "B"
    /\ preg = Rect(5, 20, 5, 20)

\* Two calls for buffer f, one after the other, on the current slot.
MarkTwice(f, r, q) ==
    LET once == MarkSlot(pfb, preg, f, r)
    IN  MarkSlot(once.fb, once.reg, f, q)

\* The pairs of distinct sample regions.
SamplePairs ==
    {<<Rect(0, 10, 0, 10), Rect(5, 20, 5, 20)>>,
     <<Rect(0, 10, 0, 10), Rect(2, 30, 12, 15)>>,
     <<Rect(5, 20, 5, 20), Rect(2, 30, 12, 15)>>}

\* C8: every call of the last same-buffer run before a drain lies inside the
\* region the worker took, every call of the last same-buffer run since the
\* drain lies inside the pending region, and two calls for one buffer give
\* the same slot in either order.
C8_NoMarkLostAcrossDrain ==
    /\ wpc = "prepare" =>
          \A c \in SeqRange(LastRun(takenCalls)) :
              fb = c.fb /\ Inside(c.reg, taken)
    /\ \A c \in SeqRange(LastRun(calls)) : pfb = c.fb /\ Inside(c.reg, preg)
    /\ \A f \in Fbs : \A p \in SamplePairs :
          MarkTwice(f, p[1], p[2]) = MarkTwice(f, p[2], p[1])

\* C8 witness: calls for buffer A on both sides of a take-and-clear: two
\* before it, and one between it and the worker's next step.
C8_Witness ==
    /\ wpc = "prepare"
    /\ Len(takenCalls) = 2 /\ fb = "A"
    /\ takenCalls[1].fb = "A" /\ takenCalls[1].reg # takenCalls[2].reg
    /\ Len(calls) = 1 /\ calls[1].fb = "A" /\ pfb = "A"

\* C9: once start has set the run flag and queued the work, the worker
\* completes a full cycle, and the parity after it is the flip of the parity
\* its data commands carried.
C9_StartLeadsToCycle ==
    (run /\ workPending) ~> (CycleDone /\ frame = 1 - log[1].parity)

\* C9 witness: the first cycle after the start completed with no producer
\* call at all.
C9_Witness ==
    /\ CycleDone /\ frame = 1 /\ log[1].parity = 0
    /\ calls = <<>> /\ fb = NoFb /\ pfb = NoFb

C11_MarkDirtyWakesWorker ==
    [][(wpc \in {"sleep", "skipsleep"} /\ Len(calls') = Len(calls) + 1) =>
          wpc' \in {"wait", "skipwait"}]_vars

\* C12: every data block sent in a cycle that drained a buffer carries
\* content produced from that buffer.
C12_SentContentIsDrainedBuffer ==
    \A i \in 1..Len(log) :
        (log[i].kind = "data" /\ fb # NoFb) => log[i].content = fb

\* C13: the slot goes from non-empty to empty only by the worker's
\* take-and-clear.
C13_OnlyWorkerEmptiesSlot ==
    [][(pfb # NoFb /\ pfb' = NoFb) => (wpc = "drain" /\ wpc' = "prepare")]_vars

Blocks == 0..(GM12U320_BLOCK_COUNT - 1)

\* The content length of a block of the given size.
ContentLength(size) == size - DATA_BLOCK_HEADER_SIZE - DATA_BLOCK_FOOTER_SIZE

\* The content length the block layout gives to block i.
LayoutContent(i) ==
    IF i = GM12U320_BLOCK_COUNT - 1 THEN DATA_LAST_BLOCK_CONTENT_SIZE
    ELSE DATA_BLOCK_CONTENT_SIZE

\* Sum of the content lengths the fill loop uses for blocks 0..n-1.
RECURSIVE ContentSum(_)
ContentSum(n) == IF n = 0 THEN 0 ELSE ContentSum(n - 1) + FillDataSize(n - 1)

\* C14: allocation, filling and the send loop agree on the block sizes: only
\* the last block has the small content length, the content lengths sum to
\* (N-1) * 64512 + 4032, and every data block is sent with the size of the
\* buffer allocated for it.
C14_BlockLayout ==
    /\ \A i \in Blocks :
          /\ ContentLength(AllocBlockSize(i)) = LayoutContent(i)
          /\ FillDataSize(i) = LayoutContent(i)
          /\ ContentLength(SendBlockSize(i)) = LayoutContent(i)
    /\ ContentSum(GM12U320_BLOCK_COUNT) =
          (GM12U320_BLOCK_COUNT - 1) * DATA_BLOCK_CONTENT_SIZE
          + DATA_LAST_BLOCK_CONTENT_SIZE
    /\ \A j \in 1..Len(log) :
          log[j].kind = "data" => log[j].size = AllocBlockSize(log[j].block)

\* C14 witness: the data block of the last block was sent with its small
\* size after a first block sent with the full size.
C14_Witness ==
    /\ Len(log) >= 3 * GM12U320_BLOCK_COUNT - 1
    /\ log[2].kind = "data" /\ log[2].block = 0 /\ log[2].size = DATA_BLOCK_SIZE
    /\ log[3 * GM12U320_BLOCK_COUNT - 1].kind = "data"
    /\ log[3 * GM12U320_BLOCK_COUNT - 1].block = GM12U320_BLOCK_COUNT - 1
    /\ log[3 * GM12U320_BLOCK_COUNT - 1].size = DATA_LAST_BLOCK_SIZE
    /\ log[3 * GM12U320_BLOCK_COUNT - 1].ok

\* C15: when alloc_page fails in gm12u320_gem_get_pages, the pages this call
\* got before (as many as the index of the failing page) and the page array
\* are released, obj->pages stays NULL and -ENOMEM is returned.
C15_GetPagesFailureReleases ==
    [][(gpc = "loop" /\ gpc' = "ret" /\ gret' # "OK") =>
          /\ gret' = "ENOMEM"
          /\ heldPages' = heldPages - gi
          /\ heldPages' = 0
          /\ ~heldArray'
          /\ ~obj_pages']_vars

\* C15 witness: the 3rd page failed after two pages had been allocated.
C15_Witness ==
    /\ gpc = "ret" /\ gret = "ENOMEM"
    /\ page_count = 3 /\ gi = 2
    /\ heldPages = 0 /\ ~heldArray /\ ~obj_pages

\* C16: after an allocate whose last step failed with -ENOMEM (the pages
\* were got but vmap() failed) and whose object was freed by the caller, no
\* page is held.
C16_NoPageAfterFailedVmap ==
    (gobj = "freed" /\ ~import_attach /\ gret = "ENOMEM") => heldPages = 0

\* C17: once a locally allocated object is released, none of its pages is
\* held.
C17_ReleaseFreesAllPages ==
    (gobj = "freed" /\ ~import_attach) => (heldPages = 0 /\ ~heldArray /\ ~vmapArea)

TransferPcs == {"cmd", "data", "status", "draw", "drawstatus"}

\* C19: an invocation of the worker begins only when none is running, also
\* when the work was queued again meanwhile, and every bulk transfer on the
\* data endpoints is a step of the worker.
C19_SingleWorker ==
    [][/\ (wpc # "entry" /\ wpc' = "entry") => (wpc = "idle" /\ workPending)
       /\ (Len(log') = Len(log) + 1) =>
             (wpc \in TransferPcs /\ log'[Len(log')].kind = wpc)]_vars

\* C19 witness: the work was queued again by an explicit start while the
\* worker started by the timer was in a data transfer.
C19_Witness ==
    /\ workPending /\ wpc = "data"
    /\ timer = "idle" /\ startpc = "idle" /\ run

\* C20: while the worker is inside a bulk transfer or asleep in its idle
\* wait, fb_update.lock is free.
C20_LockFreeWhileBlocking ==
    wpc \in TransferPcs \cup {"sleep", "skipsleep"} => lock = "free"

\* C20 witness: a producer went through its critical section while the
\* worker was asleep.
C20_Witness ==
    /\ wpc = "sleep" /\ lock = "free"
    /\ pfb = "A" /\ Len(calls) >= 1

\* C21: when stop is called with the worker in its idle wait or inside a
\* cycle, on a transport whose calls return, the worker leaves its loop and
\* stop returns.
C21_StopTerminates == (spc = "wake") ~> (spc = "idle")

\* C22: with the device pointer, the USB device, the command buffer or a data
\* block buffer missing, the worker returns before its loop: no transfer is
\* issued and no cycle is run.
C22_NoStartWithoutConfig ==
    config # ValidConfig =>
        /\ log = <<>>
        /\ wpc \in {"idle", "entry"}
        /\ lastParity = {}
        /\ exitKind \in {"none", "config"}

\* The worker was started by the timer on a device with a missing data block
\* buffer and has returned at the checks.
C22_Witness ==
    /\ config # ValidConfig
    /\ config.dev /\ config.udev /\ config.cmd
    /\ exitKind = "config"
    /\ wpc = "idle"
    /\ run /\ ~workPending /\ timer = "idle"

SkipStates == {"skipwait", "skipsleep"}

\* C23: when the capture buffer cannot be allocated the cycle is skipped: no
\* transfer is issued, parity and draw timeout stay as they are, the worker
\* waits on the wait queue and goes back to the loop condition, and it does
\* not return.
C23_AllocFailureSkipsCycle ==
    [][/\ (wpc = "prepare" /\ wpc' # "prepare") =>
              wpc' \in {"cmd", "skipwait"}
       /\ (wpc = "prepare" /\ wpc' = "skipwait") =>
              /\ log' = <<>>
              /\ frame' = frame
              /\ draw_status_timeout' = draw_status_timeout
       /\ wpc \in SkipStates =>
              /\ wpc' \in SkipStates \cup {"check"}
              /\ log' = <<>>
              /\ frame' = frame
              /\ draw_status_timeout' = draw_status_timeout
              /\ exitKind' = exitKind
       /\ (wpc = "skipwait" /\ wpc' = "check") => FbUpdateReady
       /\ (wpc = "skipwait" /\ wpc' = "skipsleep") => ~FbUpdateReady]_vars

\* After a successful cycle the next one was skipped: the worker sleeps with
\* the parity and the timeout the successful cycle left.
C23_Witness ==
    /\ wpc = "skipsleep"
    /\ frame = 1
    /\ draw_status_timeout = CMD_TIMEOUT
    /\ lastParity = {0}
    /\ log = <<>>

\* C24: the draw status read uses FIRST_FRAME_TIMEOUT until a draw has fully
\* succeeded since the worker was started and CMD_TIMEOUT from then on; the
\* timeout changes only when the worker starts and when a draw succeeds.
C24_DrawStatusTimeout ==
    [][/\ WorkerStarts => draw_status_timeout' = FIRST_FRAME_TIMEOUT
       /\ DrawSucceeds => draw_status_timeout' = CMD_TIMEOUT
       /\ (~WorkerStarts /\ ~DrawSucceeds) =>
              draw_status_timeout' = draw_status_timeout
       /\ (wpc = "drawstatus" /\ Len(log') = Len(log) + 1) =>
              log'[Len(log')].timeout =
                  IF lastParity = {} THEN FIRST_FRAME_TIMEOUT ELSE CMD_TIMEOUT]_vars

\* The draw status of a second cycle was read with CMD_TIMEOUT.
C24_Witness ==
    /\ Len(log) = TransferCount
    /\ log[TransferCount].kind = "drawstatus"
    /\ log[TransferCount].timeout = CMD_TIMEOUT
    /\ frame = 0
    /\ lastParity = {1}

\* C25: when a cycle was aborted the error is logged exactly when the status
\* is neither -ECONNRESET nor -ESHUTDOWN; a transfer that returned success
\* with a wrong length aborts the cycle and is logged.
C25_AbortLogged ==
    exitKind = "err" =>
        /\ log # <<>>
        /\ ~log[Len(log)].ok
        /\ reported <=> ret \notin {"ECONNRESET", "ESHUTDOWN"}
        /\ ret = "OK" => reported

\* A status read returned success with a short reply: the cycle was aborted
\* and the error logged.
C25_Witness ==
    /\ exitKind = "err"
    /\ ret = "OK"
    /\ reported
    /\ log # <<>>
    /\ log[Len(log)].kind = "status"
    /\ ~log[Len(log)].ok

\* C26 as stated: gm12u320_gem_fault returns VM_FAULT_NOPAGE when the page
\* was installed, VM_FAULT_OOM when the object has no backing page, and
\* VM_FAULT_SIGBUS in every other case.
C26_FaultResult ==
    vmfault.result # "none" =>
        vmfault.result =
            IF ~vmfault.pages THEN "OOM"
            ELSE IF vmfault.insert = "0" THEN "NOPAGE" ELSE "SIGBUS"

\* C26 as the code has it: gm12u320_gem_fault returns VM_FAULT_SIGBUS when the
\* object has no page array; otherwise VM_FAULT_NOPAGE when vm_insert_page
\* returns 0, -EAGAIN or -ERESTARTSYS, VM_FAULT_OOM when it returns -ENOMEM,
\* and VM_FAULT_SIGBUS for every other result.
C26_FaultResultByInsert ==
    vmfault.result # "none" =>
        /\ ~vmfault.pages => (vmfault.result = "SIGBUS" /\ vmfault.insert = "none")
        /\ vmfault.pages =>
              /\ vmfault.insert \in InsertResults
              /\ vmfault.result = "NOPAGE" <=>
                     vmfault.insert \in {"0", "EAGAIN", "ERESTARTSYS"}
              /\ vmfault.result = "OOM" <=> vmfault.insert = "ENOMEM"
              /\ vmfault.result = "SIGBUS" <=> vmfault.insert = "EFAULT"

\* A fault on an object without a page array was answered.
C26_Witness ==
    /\ gobj = "live"
    /\ ~obj_pages
    /\ ~vmfault.pages
    /\ vmfault.result = "SIGBUS"

\* C27: an object has a size of whole pages that covers the size asked for,
\* the page count of gm12u320_gem_get_pages and gm12u320_gem_vmap times the
\* page size is the object's size, and a locally backed object with pages
\* or a mapping holds exactly that many pages.
C27_SizeIsWholePages ==
    gobj = "live" =>
        /\ obj_size % PAGE_SIZE = 0
        /\ obj_size >= reqSize
        /\ obj_size - reqSize < PAGE_SIZE
        /\ PageCount(obj_size) = page_count
        /\ page_count * PAGE_SIZE = obj_size
        /\ (gpc = "idle" /\ obj_pages) => heldPages * PAGE_SIZE = obj_size
        /\ vmapping = "vmap" => heldPages * PAGE_SIZE = obj_size

\* An object asked for with a size that is not a multiple of the page size is
\* mapped.
C27_Witness ==
    /\ gobj = "live"
    /\ reqSize % PAGE_SIZE # 0
    /\ obj_size > reqSize
    /\ vmapping = "vmap"
    /\ heldPages = page_count
    /\ page_count > 1

\* The kind and the block of the i-th transfer of a cycle.
KindAt(i) ==
    IF i = 3 * GM12U320_BLOCK_COUNT + 1 THEN "draw"
    ELSE IF i = 3 * GM12U320_BLOCK_COUNT + 2 THEN "drawstatus"
    ELSE IF i % 3 = 1 THEN "cmd"
    ELSE IF i % 3 = 2 THEN "data" ELSE "status"

BlockAt(i) ==
    IF i > 3 * GM12U320_BLOCK_COUNT THEN GM12U320_BLOCK_COUNT - 1
    ELSE (i - 1) \div 3

\* C28: the transfers of a cycle are, for each block in ascending order, the
\* data command (CMD_SIZE bytes, CMD_TIMEOUT), the block (DATA_TIMEOUT) and
\* the status read (READ_STATUS_SIZE bytes, CMD_TIMEOUT), then the draw
\* command and the draw status read; each transfer follows the success of the
\* one before, and a cycle begins with no transfer of it issued.
C28_TransferOrder ==
    /\ Len(log) <= TransferCount
    /\ \A i \in 1..Len(log) :
          /\ log[i].kind = KindAt(i)
          /\ log[i].block = BlockAt(i)
          /\ i < Len(log) => log[i].ok
          /\ log[i].kind \in {"cmd", "draw"} =>
                 (log[i].size = CMD_SIZE /\ log[i].timeout = CMD_TIMEOUT)
          /\ log[i].kind = "data" =>
                 (log[i].size = SendBlockSize(BlockAt(i))
                  /\ log[i].timeout = DATA_TIMEOUT)
          /\ log[i].kind = "status" =>
                 (log[i].size = READ_STATUS_SIZE /\ log[i].timeout = CMD_TIMEOUT)
          /\ log[i].kind = "drawstatus" => log[i].size = READ_STATUS_SIZE
    /\ wpc = "cmd" => Len(log) = 3 * block
    /\ wpc = "data" => Len(log) = 3 * block + 1
    /\ wpc = "status" => Len(log) = 3 * block + 2
    /\ wpc = "draw" => Len(log) = 3 * GM12U320_BLOCK_COUNT
    /\ wpc = "drawstatus" => Len(log) = 3 * GM12U320_BLOCK_COUNT + 1
    /\ wpc \in {"wait", "sleep"} => Len(log) = TransferCount
    /\ wpc \in {"prepare", "skipwait", "skipsleep"} => log = <<>>

\* A whole cycle was issued: every block exchange, the draw command and the
\* draw status read.
C28_Witness ==
    /\ wpc = "wait"
    /\ Len(log) = TransferCount
    /\ log[1].kind = "cmd"
    /\ log[TransferCount - 1].kind = "draw"
    /\ log[TransferCount].kind = "drawstatus"
    /\ log[TransferCount].ok

CmdEntries == {i \in 1..Len(log) : log[i].kind = "cmd"}

\* C29: a data command is the cmd_data template except for byte 8 and 9, the
\* block size as a little-endian 16-bit number, byte 20, 0xfc - 4 * block,
\* which is a byte and differs from block to block, and byte 21, the block
\* with the parity in bit 7, from which both can be read back; no byte of an
\* earlier status reply is in it.  (C index k is position k + 1.)
C29_DataCommandBytes ==
    /\ \A i \in CmdEntries :
          LET c == log[i].bytes
              b == log[i].block
              p == log[i].parity
              sz == SendBlockSize(b)
          IN  /\ Len(c) = CMD_SIZE
              /\ \A j \in 1..CMD_SIZE :
                    /\ c[j] \in 0..255
                    /\ j \notin {9, 10, 21, 22} => c[j] = cmd_data[j]
              /\ c[9] = sz % 256
              /\ c[10] = sz \div 256
              /\ c[9] + 256 * c[10] = sz
              /\ c[21] = 252 - 4 * b
              /\ c[22] = b + 128 * p
              /\ c[22] % 128 = b
              /\ c[22] \div 128 = p
    /\ \A i, k \in CmdEntries :
          (i < k) => log[i].bytes[21] > log[k].bytes[21]

\* The data command of a later block, built in the buffer the status reply
\* of the block before was read into, in a cycle with parity 1.
C29_Witness ==
    /\ wpc = "data"
    /\ block = GM12U320_BLOCK_COUNT - 1
    /\ frame = 1
    /\ log[Len(log)].kind = "cmd"
    /\ log[Len(log)].bytes[22] = 128 + block
    /\ log[Len(log) - 1].kind = "status"

\* The parity bit a data command carries.
ParityBit(e) == e.bytes[22] \div 128

\* C30: the data commands of a cycle all carry the parity the worker has at
\* the start of the cycle, and the cycle after a fully successful cycle
\* carries the opposite parity.
C30_CycleParity ==
    /\ \A i \in CmdEntries : ParityBit(log[i]) = ParityBit(log[1])
    /\ (wpc \in TransferPcs /\ log # <<>>) => ParityBit(log[1]) = frame
    /\ \A p \in lastParity :
          (wpc \in TransferPcs /\ log # <<>>) => ParityBit(log[1]) = 1 - p

\* Every data command of the second cycle has been sent with parity 1 after
\* a first cycle with parity 0.
C30_Witness ==
    /\ wpc = "draw"
    /\ lastParity = {0}
    /\ Cardinality(CmdEntries) = GM12U320_BLOCK_COUNT
    /\ \A i \in CmdEntries : ParityBit(log[i]) = 1

DrawEntries == {i \in 1..Len(log) : log[i].kind = "draw"}

\* C31: the bytes sent as the draw command are the cmd_draw template, whatever
\* the block, the parity and the bytes that data commands and status replies
\* left in cmd_buf.
C31_DrawCommandIsTemplate ==
    \A i \in DrawEntries :
        /\ Len(log[i].bytes) = CMD_SIZE
        /\ \A j \in 1..CMD_SIZE : log[i].bytes[j] = cmd_draw[j]

\* The draw command of a cycle with parity 1 was sent after the status reply
\* of the last block was read into cmd_buf.
C31_Witness ==
    /\ wpc = "drawstatus"
    /\ frame = 1
    /\ DrawEntries # {}
    /\ \A i \in DrawEntries : log[i].ok /\ log[i - 1].kind = "status"

\* C32: every data block keeps the size it was allocated with, its header
\* (data_last_block_header for the last block), and data_block_footer in its
\* last bytes; content written by the worker stays between the two and
\* inside the block.
C32_HeaderContentFooter ==
    \A i \in Blocks :
        /\ data_layout[i].size = AllocBlockSize(i)
        /\ data_layout[i].hdr =
               (IF i = GM12U320_BLOCK_COUNT - 1 THEN "data_last_block_header"
                ELSE "data_block_header")
        /\ data_layout[i].foot = "data_block_footer"
        /\ ~data_layout[i].overrun
        /\ DATA_BLOCK_HEADER_SIZE + data_layout[i].filled
               + DATA_BLOCK_FOOTER_SIZE <= data_layout[i].size

\* A captured screen filled the content area of every block to its last byte
\* and the blocks were sent.
C32_Witness ==
    /\ wpc = "wait"
    /\ \A i \in Blocks :
          data_layout[i].filled =
              data_layout[i].size - DATA_BLOCK_HEADER_SIZE - DATA_BLOCK_FOOTER_SIZE

\* C33: a cycle begun with no update pending sends the blocks with the
\* content the last transmitted frame had.
C33_KeepAliveResendsLast ==
    [][(wpc = "prepare" /\ fb = NoFb /\ wpc' = "cmd" /\ lastParity # {})
           => data_buf' = data_buf]_vars

\* C34: an empty pending slot is filled only by a call of a producer: no step
\* of the worker makes it non-empty.
C34_SlotFilledOnlyByProducer ==
    [][(pfb = NoFb /\ pfb' # NoFb) => wpc' = wpc]_vars

\* C35: a pending region has x1 <= x2 and y1 <= y2 and lies within the width
\* and height of the buffer it refers to.
C35_PendingRegionValid ==
    pfb # NoFb =>
        /\ 0 <= preg.x1 /\ preg.x1 <= preg.x2 /\ preg.x2 <= FbWidth(pfb)
        /\ 0 <= preg.y1 /\ preg.y1 <= preg.y2 /\ preg.y2 <= FbHeight(pfb)

\* C36: every invocation of the work function begins with parity 0 and the
\* first-frame timeout, whatever parity the invocation before ended with, and
\* until a cycle of the new invocation has succeeded every transfer carries
\* parity 0 and a draw status read uses the first-frame timeout.
C36_RestartResetsLocals ==
    [][/\ WorkerStarts =>
              /\ frame' = 0
              /\ draw_status_timeout' = FIRST_FRAME_TIMEOUT
       /\ (lastParity = {} /\ Len(log') = Len(log) + 1) =>
              /\ log'[Len(log')].parity = 0
              /\ log'[Len(log')].kind = "cmd" => ParityBit(log'[Len(log')]) = 0
              /\ log'[Len(log')].kind = "drawstatus" =>
                     log'[Len(log')].timeout = FIRST_FRAME_TIMEOUT]_vars

\* A new invocation is about to send its first frame with parity 0 while
\* cmd_buf still holds a data command with parity 1 of the run before: the
\* last frame that run had drawn carried parity 0 too.
C36_Witness ==
    /\ wpc = "cmd"
    /\ log = <<>>
    /\ lastParity = {}
    /\ frame = 0
    /\ draw_status_timeout = FIRST_FRAME_TIMEOUT
    /\ cmd_buf[22] \in 128..255

\* C37: the start timer does not fire once gm12u320_driver_unload has
\* destroyed the workqueue and freed the device structure.
C37_NoTimerAfterTeardown ==
    [][(timer = "armed" /\ timer' \in {"firing", "late"})
           => (wqAlive \/ devAlive)]_vars

(***************************************************************************)
(* gm12u320_driver_load and gm12u320_usb_alloc (src/unnamed/part_008)      *)
(***************************************************************************)

\* What the three initialisations after gm12u320_usb_alloc can return: all
\* succeed, or gm12u320_modeset_init, gm12u320_fbdev_init or drm_vblank_init
\* fails.
OutputResults == {"ok", "modeset", "fbdev", "vblank"}

\* The labels err_wq and err: destroy_workqueue, kfree of the device, and
\* the return of ret.
LoadErrWq(r) ==
    /\ wqAlive' = FALSE
    /\ devAlive' = FALSE
    /\ lpc' = "failed"
    /\ lret' = r

\* kzalloc of the device structure; on failure the load returns at once.
LoadAllocDev ==
    /\ lpc = "entry"
    /\ \E ok \in BOOLEAN :
        /\ devAlive' = ok
        /\ lpc' = IF ok THEN "workq" ELSE "failed"
        /\ lret' = IF ok THEN lret ELSE "ENOMEM"
    /\ UNCHANGED <<run, slotVars, wqVars, timer, usb, wqAlive, wpc, localVars,
                   log, callerVars, histVars>>
    /\ UNCHANGED <<data_layout, data_buf, lock, gemVars, config, reported,
                   cmd_buf, lastParity, usb_held, dumb>>

\* create_singlethread_workqueue; on failure goto err.
LoadCreateWq ==
    /\ lpc = "workq"
    /\ \E ok \in BOOLEAN :
        /\ wqAlive' = ok
        /\ devAlive' = ok
        /\ lpc' = IF ok THEN "usb_cmd" ELSE "failed"
        /\ lret' = IF ok THEN lret ELSE "ENOMEM"
    /\ UNCHANGED <<run, slotVars, wqVars, timer, usb, wpc, localVars,
                   log, callerVars, histVars>>
    /\ UNCHANGED <<data_layout, data_buf, lock, gemVars, config, reported,
                   cmd_buf, lastParity, usb_held, dumb>>

\* gm12u320_usb_alloc, kmalloc of cmd_buf; on failure it returns -ENOMEM and
\* the load goes to err_wq.
LoadUsbAllocCmd ==
    /\ lpc = "usb_cmd"
    /\ \E ok \in BOOLEAN :
        IF ok
        THEN /\ usb_held' = usb_held + 1
             /\ lpc' = "usb_data"
             /\ UNCHANGED <<wqAlive, devAlive, lret>>
        ELSE /\ LoadErrWq("ENOMEM")
             /\ UNCHANGED usb_held
    /\ UNCHANGED <<run, slotVars, wqVars, timer, usb, wpc, localVars,
                   log, callerVars, histVars>>
    /\ UNCHANGED <<data_layout, data_buf, lock, gemVars, config, reported,
                   cmd_buf, lastParity, dumb>>

\* gm12u320_usb_alloc, one round of the loop: kzalloc of data_buf[i], with
\* i = usb_held - 1. On failure the function returns -ENOMEM as it stands
\* and the load goes to err_wq, below the gm12u320_usb_free of err_usb.
LoadUsbAllocData ==
    /\ lpc = "usb_data"
    /\ \E ok \in BOOLEAN :
        IF ok
        THEN /\ usb_held' = usb_held + 1
             /\ lpc' = IF usb_held' = GM12U320_BLOCK_COUNT + 1
                       THEN "outputs" ELSE "usb_data"
             /\ UNCHANGED <<wqAlive, devAlive, lret>>
        ELSE /\ LoadErrWq("ENOMEM")
             /\ UNCHANGED usb_held
    /\ UNCHANGED <<run, slotVars, wqVars, timer, usb, wpc, localVars,
                   log, callerVars, histVars>>
    /\ UNCHANGED <<data_layout, data_buf, lock, gemVars, config, reported,
                   cmd_buf, lastParity, dumb>>

\* gm12u320_modeset_init, gm12u320_fbdev_init, drm_vblank_init and mod_timer.
\* A failure of one of the three goes through err_usb: gm12u320_usb_free,
\* then err_wq.
LoadInitOutputs ==
    /\ lpc = "outputs"
    /\ \E r \in OutputResults :
        IF r = "ok"
        THEN /\ timer' = "armed"
             /\ usb' = "alloc"
             /\ lpc' = "done"
             /\ lret' = "ok"
             /\ UNCHANGED <<wqAlive, devAlive, usb_held>>
        ELSE /\ usb_held' = UsbFree(usb_held)
             /\ usb' = "freed"
             /\ LoadErrWq(r)
             /\ UNCHANGED timer
    /\ UNCHANGED <<run, slotVars, wqVars, wpc, localVars,
                   log, callerVars, histVars>>
    /\ UNCHANGED <<data_layout, data_buf, lock, gemVars, config, reported,
                   cmd_buf, lastParity, dumb>>

\* The state in which the DRM core calls gm12u320_driver_load: no device
\* structure, no workqueue, no buffer, the timer not armed. data_layout is
\* the layout gm12u320_usb_alloc gives each block it allocates and config
\* the pointers a successful load leaves; the worker reads neither before
\* the timer the load arms has fired.
InitLoad ==
    /\ run = FALSE
    /\ pfb = NoFb
    /\ preg = ZeroRect
    /\ workPending = FALSE
    /\ canceling = FALSE
    /\ timer = "idle"
    /\ usb = "freed"
    /\ wqAlive = FALSE
    /\ devAlive = FALSE
    /\ wpc = "idle"
    /\ block = 0
    /\ frame = 0
    /\ draw_status_timeout = FIRST_FRAME_TIMEOUT
    /\ fb = NoFb
    /\ taken = ZeroRect
    /\ ret = "OK"
    /\ log = <<>>
    /\ startpc = "idle"
    /\ spc = "idle"
    /\ upc = "idle"
    /\ calls = <<>>
    /\ takenCalls = <<>>
    /\ stopReturned = FALSE
    /\ exitKind = "none"
    /\ config = ValidConfig
    /\ reported = FALSE
    /\ cmd_buf = [i \in 1..CMD_SIZE |-> UNKNOWN_BYTE]
    /\ lastParity = {}
    /\ obj_size = 0
    /\ reqSize = 0
    /\ vmfault = [pages |-> FALSE, insert |-> "none", result |-> "none"]
    /\ data_buf = "header"
    /\ data_layout = [i \in 0..(GM12U320_BLOCK_COUNT - 1) |-> AllocBlock(i)]
    /\ lock = "free"
    /\ gobj = "none"
    /\ import_attach = FALSE
    /\ page_count = 1
    /\ obj_pages = FALSE
    /\ vmapping = "NULL"
    /\ heldPages = 0
    /\ heldArray = FALSE
    /\ vmapArea = FALSE
    /\ extMap = FALSE
    /\ gpc = "idle"
    /\ gi = 0
    /\ gcaller = "none"
    /\ gret = "none"
    /\ lpc = "entry"
    /\ usb_held = 0
    /\ lret = "none"
    /\ dumb = NoDumb

\* The load, and after a successful load the running driver.
NextLoad ==
    \/ LoadAllocDev
    \/ LoadCreateWq
    \/ LoadUsbAllocCmd
    \/ LoadUsbAllocData
    \/ LoadInitOutputs
    \/ ProducerOne
    \/ TimerFire
    \/ TimerQueue
    \/ WorkerStart
    \/ WorkerEntry
    \/ WorkerCheck
    \/ WorkerDrain
    \/ OkPrepare
    \/ OkSendDataCmd
    \/ OkSendDataBlock
    \/ OkReadStatus
    \/ OkSendDrawCmd
    \/ OkReadDrawStatus
    \/ WorkerWait
    \/ WorkerTimeout

SpecLoad == InitLoad /\ [][NextLoad]_vars

\* C38: when gm12u320_driver_load has returned an error, none of the buffers
\* of gm12u320_usb_alloc (cmd_buf, data_buf[]) is still allocated.
C38_FailedLoadHoldsNoBuffers == lpc = "failed" => usb_held = 0

\* The load fails in gm12u320_usb_alloc after cmd_buf and at least one data
\* block were allocated.
C38_FailedInDataBlocks == ~(lpc = "failed" /\ lret = "ENOMEM" /\ usb_held >= 2)

\* The failures the load does clean up: one of the three initialisations
\* after gm12u320_usb_alloc fails, and every buffer is freed.
C38_LaterFailureFrees ==
    (lpc = "failed" /\ lret \in {"modeset", "fbdev", "vblank"}) => usb_held = 0

NextDumb == DumbCreate

SpecDumb == Init /\ [][NextDumb]_vars

\* C39: when gm12u320_dumb_create succeeds, the object it made is at least
\* width * height * ceil(bpp / 8) bytes.
C39_BufferCoversRequest ==
    dumb.ret = "ok" =>
        ~Less(dumb.obj, BytesNeeded(dumb.width, dumb.height, dumb.bpp))

\* A successful call whose object is smaller than the geometry and not empty.
C39_NoShortBuffer ==
    ~(/\ dumb.ret = "ok"
      /\ Less(dumb.obj, BytesNeeded(dumb.width, dumb.height, dumb.bpp))
      /\ Less(U32(0, 0), dumb.obj))

\* Where neither product leaves 32 bits, the object covers the geometry.
C39_CoversWithoutWrap ==
    (/\ dumb.ret = "ok"
     /\ Extend(dumb.pitch, 9)
            = Mul(dumb.width, DivSmall(AddSmall(Extend(dumb.bpp, 5), 7), 8), 9)
     /\ dumb.size = Mul(dumb.pitch, dumb.height, 8))
    => ~Less(dumb.obj, BytesNeeded(dumb.width, dumb.height, dumb.bpp))

====
